---- MODULE Spec2Model ----
(***************************************************************************)
(* The graceful startup/shutdown controller of zxdev/env (graceful.go):    *)
(* one *graceful value, its signal watcher goroutine, the goroutines that  *)
(* call its methods, and the worker goroutines that Init spawns.           *)
(* Every access to shared state (an atomic.Bool, a sync.WaitGroup, the     *)
(* context, a plain field) is one step of the thread that makes it.        *)
(***************************************************************************)
EXTENDS Integers, Sequences, FiniteSets, TLC

\* ------------------------------------------------------------------ bounds
\* number of objects that can be handed to Init in total
MaxUnits == 1
\* number of func() that can be handed to Register in total
MaxHooks == 2
\* number of method calls the callers make in total
MaxCalls == 3
\* number of signals the environment sends to a process that runs the
\* standalone Shutdown
MaxSignals == 2
\* last reading of the wall clock while Expire.Start runs
MaxClock == 4
\* number of command-line arguments after the program name
MaxArgs == 2
\* number of keys that can be added to a Map
MaxKeys == 2
\* last reading of the clock while a Map is filled and drained
MaxStamp == 3
\* number of Map.Add calls
MaxAdds == 3
\* number of path elements Exist can append to one Lock value
MaxDepth == 3
\* number of Exist, Lock and Unlock calls on one Lock value
MaxOps == 5
\* number of Lock calls the two processes make in total
MaxTries == 3

UnitIds == 1..MaxUnits
HookIds == 1..MaxHooks
\* the codes SetExit is tried with: zero and two others
ExitCodes == {0, 1, 2}

\* the goroutines that call the methods of *graceful
Main == "main"
Aux == "aux"
Watcher == "watcher"
Callers == {Main, Aux}
Threads == Callers \cup {Watcher}

\* the dynamic types of the objects handed to Init: func(),
\* func(context.Context, *sync.WaitGroup), func(context.Context), anything else
Shapes == {"func", "ctxwg", "ctx", "other"}

VARIABLES
    init,       \* g.init: counter of the init sync.WaitGroup
    shutdown,   \* g.shutdown: counter of the shutdown sync.WaitGroup
    ctx,        \* g.ctx: TRUE when the context is done (cancelled)
    stop,       \* g.stop atomic.Bool
    wait,       \* g.wait atomic.Bool
    bye,        \* g.bye atomic.Bool
    exit,       \* g.exit
    silent,     \* g.silent
    frame,      \* g.frame
    toggled,    \* history: whether Silent() and Frame() were called an odd
                \* number of times
    register,   \* g.register: the funcs, by id, in append order
    notify,     \* signal.Notify(sig, ...) is in effect
    pc,         \* position of each thread
    op,         \* the method a caller is in
    calls,      \* number of method calls made so far
    obj,        \* the obj ...interface{} of a caller's Init call (unit ids)
    idx,        \* loop index i of the thread (Init's loop, Shutdown's loop)
    rlen,       \* length of g.register taken by range in Shutdown
    code,       \* the value the thread read from g.exit
    shape,      \* dynamic type of each unit ("none": not handed to Init)
    upc,        \* position of each unit's goroutine
    proc,       \* "running", or "exited" after os.Exit
    status,     \* the argument of os.Exit
    \* ---- history of what happened, read by the properties only
    reported,   \* the unit's init.Done() has been called
    passed,     \* blocking points of Shutdown the thread has passed, in order
    events,     \* number of framer calls per event
    cancels,    \* number of g.cancel() calls made by Cancel
    fired,      \* number of times the context went from pending to done
    terminal,   \* number of threads that won g.bye
    runs,       \* per hook, the number of times it was called
    hlog,       \* hooks in the order their calls began
    active,     \* hooks that are executing
    policy,     \* number of evaluations of g.exit != 0
    snap,       \* per caller of Wait: units of the Init calls completed before
    trigger,    \* what made the context done: "none", "signal" or "cancel"
    hsnap,      \* length of g.register when a thread won g.bye
    dlog,       \* per unit, the barriers its goroutine has decremented, in order
    ready0      \* a ready-wait has returned while no unit had been spawned

\* the standalone Shutdown(ctx, shutdownFunc) of shutdown.go
VARIABLES
    sdPc,       \* where the call is: "none" when the program does not make it
    sdFn,       \* shutdownFunc: "nil", a func that returns, or one that
                \* cancels ctx (the documented use)
    sdCtx,      \* TRUE when the caller's ctx is done
    sdNotify,   \* TRUE while signal.Notify relays the three signals to sig
    sdChan,     \* the one-slot channel sig: "none" or the buffered signal
    sdGot,      \* what the select received: "none", "ctx" or a signal
    sdRan,      \* history: number of runs of shutdownFunc
    sdSent,     \* number of signals sent to the process
    sdProc,     \* "running", "exited" (os.Exit) or "killed" (by a signal)
    sdStatus    \* the exit status

\* Expire.Start(ctx, init) of expire.go, run as a worker
VARIABLES
    exPc,       \* where the call is: "none" when the program does not make it
    exFreq,     \* ex.Freq
    exNow,      \* the wall clock
    exT,        \* time.Now().Add(ex.Freq).Truncate(ex.Freq)
    exDue,      \* when the current ticker fires next, -1 without a ticker
    exPeriod,   \* the period of the current ticker
    exChan,     \* TRUE when a tick is buffered in ticker.C
    exOnce,     \* the local variable once
    exInit,     \* the counter of the WaitGroup handed to Start
    exDones,    \* history: number of init.Done() calls
    exCtx,      \* TRUE when ctx is done
    exFiles,    \* modification times of the regular files in the swept path
    exProc      \* "running", or "panic" when the goroutine panicked

\* Parser.Do (and Options.parse) on a struct with one settable field
VARIABLES
    pPc,        \* where the call is: "none" when the program does not make it
    pArgs,      \* os.Args[1:]
    pTag,       \* the field's default tag: << >> without one, else << text >>
    pEnv,       \* the environment variable of the field's upper-case name
    pKind,      \* the field's kind: "string" or "bool"
    pOrder,     \* the field's env tag has "order"
    pRequire,   \* the field's env tag has "require"
    pSetENV,    \* p.SetENV, or the field's env tag has "environ"
    pM,         \* p.m at the field's name
    pField,     \* the field of the struct
    pValue,     \* the local variable value
    pStatus,    \* the local variable status
    pMirror,    \* the environment variable of the field's lower-case name
    pProc       \* "running", or "exited" after os.Exit

\* a Map and the iterator of Map.Next (the persist code)
VARIABLES
    mPc,        \* "none" when the program has no Map; "build" while keys are
                \* added; "nil" when Next returned nil; "idle" between calls
                \* of the iterator; "loop" inside a call; "end" after the
                \* call that returned more = false
    mMap,       \* the Map: per key its time, -1 when the key is absent
    mNow,       \* the clock
    mAge,       \* the argument age of Next
    mOrig,      \* history: the keys of the Map when Next was called
    mLog,       \* history: the keys yielded, each with its time and the
                \* clock at the yield
    mAdds,      \* history: number of Add calls
    mDrop       \* history: the keys deleted as expired, each with its time
                \* and the clock at the deletion

\* one Lock value of lock.go and the files below its directory
VARIABLES
    lkPc,       \* "none" when the program has no Lock value, else "on"
    lkEmpty,    \* TRUE while the Lock value is the empty string
    lkDepth,    \* number of {program}.lock elements the Lock value holds
                \* after its directory
    lkFs,       \* the files: what is at the directory (0) and at the path
                \* with d elements {program}.lock appended: "none", "dir"
                \* or "file"
    lkMt,       \* their modification times
    lkNow,      \* the clock
    lkLog       \* history: the calls made, each with its result

\* two processes of one program that use the Lock struct of the older
\* version, with the same Path
VARIABLES
    flPc,       \* per process: "none" when the program is not run this way,
                \* "idle", inside Lock ("stat", "check", "create"), "held"
                \* after Lock returned false, "refused" after it returned true
    flInfo,     \* per process: the ModTime os.Stat returned, -1 for no info
    flConc,     \* history, per process: the other process was inside Lock
                \* during this call
    flTTL,      \* lk.TTL
    flDir,      \* TRUE when the directory lk.Path exists
    flFile,     \* the ModTime of {Path}/{program}.lock, -1 when it is absent
    flPid,      \* the pid written to the file, 0 for none
    flNow,      \* the clock
    flTries     \* number of Lock calls made

vars == << init, shutdown, ctx, stop, wait, bye, exit, register, notify,
           pc, op, calls, obj, idx, rlen, code, shape, upc, proc, status,
           reported, passed, events, cancels, fired, terminal, runs, hlog,
           active, policy, snap, trigger, hsnap, dlog, ready0, silent, frame,
           toggled, sdPc, sdFn, sdCtx, sdNotify, sdChan, sdGot, sdRan, sdSent,
           sdProc, sdStatus, exPc, exFreq, exNow, exT, exDue, exPeriod, exChan,
           exOnce, exInit, exDones, exCtx, exFiles, exProc, pPc, pArgs, pTag,
           pEnv, pKind, pOrder, pRequire, pSetENV, pM, pField, pValue, pStatus,
           pMirror, pProc, mPc, mMap, mNow, mAge, mOrig, mLog,
           mAdds, mDrop, lkPc, lkEmpty, lkDepth, lkFs, lkMt, lkNow, lkLog,
           flPc, flInfo, flConc, flTTL, flDir, flFile, flPid, flNow, flTries >>

gvars == << init, shutdown, ctx, stop, wait, bye, exit, register >>
svars == << notify >>
hvars == << reported, passed, events, cancels, fired, terminal, runs, hlog,
            active, policy, snap >>
avars == << trigger, hsnap >>
dvars == << dlog, ready0 >>
uvars == << shape, upc >>
lvars == << op, calls, obj, idx, rlen, code >>
xvars == << proc, status >>
fvars == << silent, frame, toggled >>
sdvars == << sdPc, sdFn, sdCtx, sdNotify, sdChan, sdGot, sdRan, sdSent,
             sdProc, sdStatus >>
\* the state of the components that are not the orchestrator
exvars == << exPc, exFreq, exNow, exT, exDue, exPeriod, exChan, exOnce,
             exInit, exDones, exCtx, exFiles, exProc >>
pvars == << pPc, pArgs, pTag, pEnv, pKind, pOrder, pRequire, pSetENV, pM,
            pField, pValue, pStatus, pMirror, pProc >>
ovars == << sdvars, exvars, pvars >>
mvars == << mPc, mMap, mNow, mAge, mOrig, mLog, mAdds, mDrop >>
\* the state of the components that keep files and maps
lkvars == << lkPc, lkEmpty, lkDepth, lkFs, lkMt, lkNow, lkLog >>
flvars == << flPc, flInfo, flConc, flTTL, flDir, flFile, flPid, flNow,
            flTries >>
nvars == << mvars, lkvars, flvars >>
\* the state of the orchestrator
grvars == << gvars, svars, hvars, avars, dvars, uvars, lvars, xvars, fvars, pc >>

Alive == proc = "running"

\* history counters saturate: they are compared with 0, 1 and "more than 1" only
Bump(n) == IF n < 2 THEN n + 1 ELSE n

RangeOf(s) == {s[i] : i \in 1..Len(s)}

\* ---------------------------------------------------------------- NewGraceful
\* the state once NewGraceful has returned and its goroutine has called
\* signal.Notify and stands at its select
NewGraceful ==
    /\ init = 0 /\ shutdown = 0 /\ ctx = FALSE
    /\ stop = FALSE /\ wait = FALSE /\ bye = FALSE
    /\ exit = 0 /\ register = << >>
    /\ notify = TRUE
    /\ pc = [t \in Threads |-> IF t = Watcher THEN "wSelect" ELSE "idle"]
    /\ op = [t \in Threads |-> IF t = Watcher THEN "watch" ELSE "none"]
    /\ calls = 0
    /\ obj = [t \in Threads |-> << >>]
    /\ idx = [t \in Threads |-> 0]
    /\ rlen = [t \in Threads |-> 0]
    /\ code = [t \in Threads |-> 0]
    /\ shape = [u \in UnitIds |-> "none"]
    /\ upc = [u \in UnitIds |-> "none"]
    /\ proc = "running" /\ status = 0
    /\ reported = [u \in UnitIds |-> FALSE]
    /\ passed = [t \in Threads |-> << >>]
    /\ events = [e \in {"shutdown initiated", "bye"} |-> 0]
    /\ cancels = 0 /\ fired = 0 /\ terminal = 0
    /\ runs = [h \in HookIds |-> 0]
    /\ hlog = << >> /\ active = {}
    /\ policy = 0
    /\ snap = [t \in Threads |-> {}]
    /\ trigger = "none" /\ hsnap = 0
    /\ dlog = [u \in UnitIds |-> << >>]
    /\ ready0 = FALSE
    /\ silent = FALSE /\ frame = FALSE
    /\ toggled = [m \in {"Silent", "Frame"} |-> FALSE]

\* the keys of a Map, and the empty key
Keys == 1..MaxKeys
\* a program without a Map
NoMap ==
    /\ mPc = "none" /\ mMap = [k \in Keys |-> -1] /\ mNow = 0 /\ mAge = 0
    /\ mOrig = {} /\ mLog = << >> /\ mAdds = 0 /\ mDrop = {}
\* a program that keeps no Map and no lock file
\* the path elements after the directory, and one more that stays empty
Nodes == 0..(MaxDepth + 1)
\* a program without a Lock value
NoLock ==
    /\ lkPc = "none" /\ lkEmpty = TRUE /\ lkDepth = 0
    /\ lkFs = [d \in Nodes |-> "none"] /\ lkMt = [d \in Nodes |-> 0]
    /\ lkNow = 0 /\ lkLog = << >>
\* the two processes
Procs == {1, 2}
\* a program that is not run as two processes sharing a lock file
NoFlock ==
    /\ flPc = [q \in Procs |-> "none"] /\ flInfo = [q \in Procs |-> -1]
    /\ flConc = [q \in Procs |-> FALSE] /\ flTTL = 0 /\ flDir = FALSE
    /\ flFile = -1 /\ flPid = 0 /\ flNow = 0 /\ flTries = 0
NoFiles == NoMap /\ NoLock /\ NoFlock

\* a program that does not call the standalone Shutdown
NoShutdown ==
    /\ sdPc = "none" /\ sdFn = "nil" /\ sdCtx = FALSE /\ sdNotify = FALSE
    /\ sdChan = "none" /\ sdGot = "none" /\ sdRan = 0 /\ sdSent = 0
    /\ sdProc = "running" /\ sdStatus = 0

\* a program that does not run Expire.Start
NoExpire ==
    /\ exPc = "none" /\ exFreq = 0 /\ exNow = 0 /\ exT = 0 /\ exDue = -1
    /\ exPeriod = 0 /\ exChan = FALSE /\ exOnce = FALSE /\ exInit = 0
    /\ exDones = 0 /\ exCtx = FALSE /\ exFiles = {} /\ exProc = "running"

\* a program that does not parse a configuration
NoParse ==
    /\ pPc = "none" /\ pArgs = << >> /\ pTag = << >> /\ pEnv = << >>
    /\ pKind = "string" /\ pOrder = FALSE /\ pRequire = FALSE
    /\ pSetENV = FALSE /\ pM = << >> /\ pField = << >> /\ pValue = << >>
    /\ pStatus = FALSE /\ pMirror = << >> /\ pProc = "running"

\* a program that uses the orchestrator
Init == NewGraceful /\ NoShutdown /\ NoExpire /\ NoParse /\ NoFiles

\* ------------------------------------------------------------- local helpers
\* units handed to Init so far
Known == {u \in UnitIds : shape[u] # "none"}
\* units of an Init call that has not returned yet
InFlight == {u \in UnitIds : \E t \in Threads :
                pc[t] = "iLoop" /\ u \in RangeOf(obj[t])}
\* units of the Init calls that have returned
Registered == Known \ InFlight

\* no goroutine has been started for any unit yet
NoneSpawned == \A u \in UnitIds : upc[u] \in {"none", "queued"}

Goto(t, l) == pc' = [pc EXCEPT ![t] = l]
\* the thread passes blocking point b of Shutdown; ok: b's condition held
Pass(t, b, ok) == passed' = [passed EXCEPT ![t] = Append(@, << b, ok >>)]
Log(e) == events' = [events EXCEPT ![e] = Bump(@)]
\* a thread may take a step: the process lives, and no call is returning (a
\* return is local to its caller, so it is taken before any other step)
Run == Alive /\ \A c \in Threads : pc[c] # "ret"
\* a caller that may start a method call
Idle(t) == Run /\ t \in Callers /\ pc[t] = "idle" /\ calls < MaxCalls

\* ---------------------------------------------------------------- the callers
\* a call returns to its caller; the watcher's goroutine ends; a worker whose
\* own Cancel() returned goes on to return from fxn
Return(t) ==
    /\ Alive /\ pc[t] = "ret"
    /\ Goto(t, IF t = Watcher THEN "done" ELSE "idle")
    /\ op' = [op EXCEPT ![t] = IF t = Watcher THEN op[t] ELSE "none"]
    /\ obj' = [obj EXCEPT ![t] = << >>]
    /\ idx' = [idx EXCEPT ![t] = 0]
    /\ rlen' = [rlen EXCEPT ![t] = 0]
    /\ code' = [code EXCEPT ![t] = 0]
    /\ passed' = [passed EXCEPT ![t] = << >>]
    /\ snap' = [snap EXCEPT ![t] = {}]
    /\ upc' = [u \in UnitIds |->
                 IF t = Aux /\ upc[u] = "cancel" THEN "exit" ELSE upc[u]]
    /\ UNCHANGED << fvars, ovars, nvars, gvars, svars, avars, dvars, calls, shape, xvars, reported, events,
                    cancels, fired, terminal, runs, hlog, active, policy >>

\* graceful.SetExit
SetExit(t, i) ==
    /\ Idle(t) /\ t = Main /\ i # exit
    /\ exit' = i
    /\ calls' = calls + 1
    /\ UNCHANGED << fvars, ovars, nvars, init, shutdown, ctx, stop, wait, bye, register, svars, avars, dvars, pc,
                    op, obj, idx, rlen, code, uvars, xvars, hvars >>

\* graceful.Silent: g.silent = !g.silent
Silent(t) ==
    /\ Idle(t) /\ t = Main
    /\ silent' = ~silent
    /\ toggled' = [toggled EXCEPT !["Silent"] = ~@]
    /\ calls' = calls + 1
    /\ UNCHANGED << gvars, svars, avars, dvars, pc, op, obj, idx, rlen, code, uvars,
                    xvars, hvars, frame, ovars, nvars >>

\* graceful.Frame: g.silent = !g.silent
Frame(t) ==
    /\ Idle(t) /\ t = Main
    /\ silent' = ~silent
    /\ toggled' = [toggled EXCEPT !["Frame"] = ~@]
    /\ calls' = calls + 1
    /\ UNCHANGED << gvars, svars, avars, dvars, pc, op, obj, idx, rlen, code, uvars,
                    xvars, hvars, frame, ovars, nvars >>

\* graceful.framer: the lines one call of g.framer(e) prints
framer(e) ==
    IF ~silent
    THEN (IF ~frame THEN << "bar" >> ELSE << >>) \o << e >>
         \o (IF ~frame THEN << "bar" >> ELSE << >>)
    ELSE << >>

\* graceful.Register
Register(t) ==
    /\ Idle(t) /\ t = Main /\ Len(register) < MaxHooks
    /\ register' = Append(register, Len(register) + 1)
    /\ calls' = calls + 1
    /\ UNCHANGED << fvars, ovars, nvars, init, shutdown, ctx, stop, wait, bye, exit, svars, avars, dvars, pc,
                    op, obj, idx, rlen, code, uvars, xvars, hvars >>

\* variant: g.init.Add(len(obj)) with no reserved slot
InitAdd_NoSlot(t, ks) ==
    /\ Idle(t) /\ t = Main
    /\ LET n == Cardinality(Known)
           k == Len(ks)
       IN  /\ n + k <= MaxUnits
           /\ shape' = [u \in UnitIds |->
                          IF u \in (n + 1)..(n + k) THEN ks[u - n] ELSE shape[u]]
           /\ upc' = [u \in UnitIds |->
                          IF u \in (n + 1)..(n + k) THEN "queued" ELSE upc[u]]
           /\ obj' = [obj EXCEPT ![t] = [i \in 1..k |-> n + i]]
           /\ init' = init + k
    /\ op' = [op EXCEPT ![t] = "Init"]
    /\ calls' = calls + 1
    /\ idx' = [idx EXCEPT ![t] = 1]
    /\ Goto(t, "iLoop")
    /\ UNCHANGED << fvars, ovars, nvars, shutdown, ctx, stop, wait, bye, exit, register, svars, avars, dvars,
                    rlen, code, xvars, hvars >>

\* variant: g.init.Add(len(obj) + 1) moved behind the loop
InitAdd_AddLast(t, ks) ==
    /\ Idle(t) /\ t = Main
    /\ LET n == Cardinality(Known)
           k == Len(ks)
       IN  /\ n + k <= MaxUnits
           /\ shape' = [u \in UnitIds |->
                          IF u \in (n + 1)..(n + k) THEN ks[u - n] ELSE shape[u]]
           /\ upc' = [u \in UnitIds |->
                          IF u \in (n + 1)..(n + k) THEN "queued" ELSE upc[u]]
           /\ obj' = [obj EXCEPT ![t] = [i \in 1..k |-> n + i]]
           /\ init' = init
    /\ op' = [op EXCEPT ![t] = "Init"]
    /\ calls' = calls + 1
    /\ idx' = [idx EXCEPT ![t] = 1]
    /\ Goto(t, "iLoop")
    /\ UNCHANGED << fvars, ovars, nvars, shutdown, ctx, stop, wait, bye, exit, register, svars, avars, dvars,
                    rlen, code, xvars, hvars >>

\* ---------------------------------------------------------------- graceful.Init
\* the call Init(obj...), ks the dynamic types of the objects, up to
\* g.init.Add(len(obj) + 1); defer g.init.Done()
InitAdd(t, ks) ==
    /\ Idle(t) /\ t = Main
    /\ LET n == Cardinality(Known)
           k == Len(ks)
       IN  /\ n + k <= MaxUnits
           /\ shape' = [u \in UnitIds |->
                          IF u \in (n + 1)..(n + k) THEN ks[u - n] ELSE shape[u]]
           /\ upc' = [u \in UnitIds |->
                          IF u \in (n + 1)..(n + k) THEN "queued" ELSE upc[u]]
           /\ obj' = [obj EXCEPT ![t] = [i \in 1..k |-> n + i]]
           /\ init' = init + k + 1
    /\ op' = [op EXCEPT ![t] = "Init"]
    /\ calls' = calls + 1
    /\ idx' = [idx EXCEPT ![t] = 1]
    /\ Goto(t, "iLoop")
    /\ UNCHANGED << fvars, ovars, nvars, shutdown, ctx, stop, wait, bye, exit, register, svars, avars, dvars,
                    rlen, code, xvars, hvars >>

\* where a unit's goroutine stands before its first access to shared state:
\* the type switch has chosen the case, fxn is running or about to be called
Spawned(u) ==
    CASE shape[u] = "func" -> "body"
      [] shape[u] = "ctxwg" -> "body"
      [] shape[u] = "ctx" -> "spawned"
      [] OTHER -> "exit"

\* variant: g.shutdown.Add(1) moved into the goroutine
InitSpawn_NoAdd(t) ==
    /\ Run /\ pc[t] = "iLoop" /\ idx[t] <= Len(obj[t])
    /\ upc' = [upc EXCEPT ![obj[t][idx[t]]] = Spawned(obj[t][idx[t]])]
    /\ idx' = [idx EXCEPT ![t] = @ + 1]
    /\ UNCHANGED << fvars, ovars, nvars, gvars, svars, avars, dvars, pc, op, calls, obj, rlen, code,
                    shape, xvars, hvars >>

\* one turn of the loop: g.shutdown.Add(1); go func(...){...}(obj[i], g.init)
InitSpawn(t) ==
    /\ Run /\ pc[t] = "iLoop" /\ idx[t] <= Len(obj[t])
    /\ shutdown' = shutdown + 1
    /\ upc' = [upc EXCEPT ![obj[t][idx[t]]] = Spawned(obj[t][idx[t]])]
    /\ idx' = [idx EXCEPT ![t] = @ + 1]
    /\ UNCHANGED << fvars, ovars, nvars, init, ctx, stop, wait, bye, exit, register, svars, avars, dvars, pc, op,
                    calls, obj, rlen, code, shape, xvars, hvars >>

\* variant: Init without the deferred g.init.Done()
InitReturn_NoDone(t) ==
    /\ Run /\ pc[t] = "iLoop" /\ idx[t] > Len(obj[t])
    /\ Goto(t, "ret")
    /\ UNCHANGED << fvars, ovars, nvars, gvars, svars, avars, dvars, lvars, uvars, xvars, hvars >>

\* return g, and the deferred g.init.Done()
InitReturn(t) ==
    /\ Run /\ pc[t] = "iLoop" /\ idx[t] > Len(obj[t])
    /\ init' = init - 1
    /\ Goto(t, "ret")
    /\ UNCHANGED << fvars, ovars, nvars, shutdown, ctx, stop, wait, bye, exit, register, svars, avars, dvars,
                    lvars, uvars, xvars, hvars >>

\* ------------------------------------------------ the goroutine of one unit
\* variant: case func(context.Context) with init.Done() behind fxn(g.Context())
WorkerStart_DoneLast(u) ==
    /\ Run /\ shape[u] = "ctx" /\ upc[u] = "spawned"
    /\ upc' = [upc EXCEPT ![u] = "block"]
    /\ UNCHANGED << fvars, ovars, nvars, gvars, svars, avars, dvars, pc, lvars, shape, xvars, hvars >>

\* case func(context.Context): init.Done(), then fxn(g.Context()) blocks
WorkerStart(u) ==
    /\ Run /\ shape[u] = "ctx" /\ upc[u] = "spawned"
    /\ init' = init - 1
    /\ reported' = [reported EXCEPT ![u] = TRUE]
    /\ upc' = [upc EXCEPT ![u] = "block"]
    /\ dlog' = [dlog EXCEPT ![u] = Append(@, "init")]
    /\ UNCHANGED << fvars, ovars, nvars, shutdown, ctx, stop, wait, bye, exit, register, svars, avars, ready0, pc,
                    lvars, shape, xvars, passed, events, cancels, fired,
                    terminal, runs, hlog, active, policy, snap >>

\* variant: case func() with init.Done() deferred as well as called
FuncReturn_Twice(u) ==
    /\ Run /\ shape[u] = "func" /\ upc[u] = "body"
    /\ init' = init - 2
    /\ reported' = [reported EXCEPT ![u] = TRUE]
    /\ upc' = [upc EXCEPT ![u] = "exit"]
    /\ dlog' = [dlog EXCEPT ![u] = Append(Append(@, "init"), "init")]
    /\ UNCHANGED << fvars, ovars, nvars, shutdown, ctx, stop, wait, bye, exit, register, svars, avars, ready0, pc,
                    lvars, shape, xvars, passed, events, cancels, fired,
                    terminal, runs, hlog, active, policy, snap >>

\* variant: case func() with init.Done() deferred after g.shutdown.Done(), so
\* that g.shutdown.Done() runs first
FuncReturn_ShutdownFirst(u) ==
    /\ Run /\ shape[u] = "func" /\ upc[u] = "body"
    /\ shutdown' = shutdown - 1
    /\ upc' = [upc EXCEPT ![u] = "returned"]
    /\ dlog' = [dlog EXCEPT ![u] = Append(@, "shutdown")]
    /\ UNCHANGED << fvars, ovars, nvars, init, ctx, stop, wait, bye, exit, register, svars, avars, ready0, pc,
                    lvars, shape, xvars, hvars >>

\* case func(): fxn() returns, then init.Done()
FuncReturn(u) ==
    /\ Run /\ shape[u] = "func" /\ upc[u] = "body"
    /\ init' = init - 1
    /\ reported' = [reported EXCEPT ![u] = TRUE]
    /\ upc' = [upc EXCEPT ![u] = "exit"]
    /\ dlog' = [dlog EXCEPT ![u] = Append(@, "init")]
    /\ UNCHANGED << fvars, ovars, nvars, shutdown, ctx, stop, wait, bye, exit, register, svars, avars, ready0, pc,
                    lvars, shape, xvars, passed, events, cancels, fired,
                    terminal, runs, hlog, active, policy, snap >>

\* case func(context.Context, *sync.WaitGroup): the worker has finished its
\* bootstrap, calls init.Done() and blocks on <-ctx.Done()
WorkerReady(u) ==
    /\ Run /\ shape[u] = "ctxwg" /\ upc[u] = "body"
    /\ init' = init - 1
    /\ reported' = [reported EXCEPT ![u] = TRUE]
    /\ upc' = [upc EXCEPT ![u] = "block"]
    /\ dlog' = [dlog EXCEPT ![u] = Append(@, "init")]
    /\ UNCHANGED << fvars, ovars, nvars, shutdown, ctx, stop, wait, bye, exit, register, svars, avars, ready0, pc,
                    lvars, shape, xvars, passed, events, cancels, fired,
                    terminal, runs, hlog, active, policy, snap >>

\* case func(context.Context, *sync.WaitGroup) with a worker that defers
\* init.Done(): it blocks on <-ctx.Done() unreported, and when the context is
\* done it returns from fxn, which runs its deferred init.Done()
WorkerLate(u) ==
    /\ Run /\ shape[u] = "ctxwg" /\ upc[u] = "body" /\ ctx
    /\ init' = init - 1
    /\ reported' = [reported EXCEPT ![u] = TRUE]
    /\ upc' = [upc EXCEPT ![u] = "exit"]
    /\ dlog' = [dlog EXCEPT ![u] = Append(@, "init")]
    /\ UNCHANGED << fvars, ovars, nvars, shutdown, ctx, stop, wait, bye, exit, register, svars, avars, ready0, pc,
                    lvars, shape, xvars, passed, events, cancels, fired,
                    terminal, runs, hlog, active, policy, snap >>

\* variant: the goroutine of Init calls init.Done() itself once a
\* func(context.Context, *sync.WaitGroup) has returned
WorkerSilent_Release(u) ==
    /\ Run /\ shape[u] = "ctxwg" /\ upc[u] = "body" /\ ctx
    /\ init' = init - 1
    /\ upc' = [upc EXCEPT ![u] = "exit"]
    /\ UNCHANGED << fvars, ovars, nvars, shutdown, ctx, stop, wait, bye, exit, register, svars, avars, dvars, pc,
                    lvars, shape, xvars, hvars >>

\* case func(context.Context, *sync.WaitGroup) with a worker that never calls
\* init.Done(): it blocks on <-ctx.Done() and returns from fxn
WorkerSilent(u) ==
    /\ Run /\ shape[u] = "ctxwg" /\ upc[u] = "body" /\ ctx
    /\ upc' = [upc EXCEPT ![u] = "exit"]
    /\ UNCHANGED << fvars, ovars, nvars, gvars, svars, avars, dvars, pc, lvars, shape, xvars, hvars >>

\* <-ctx.Done() in the worker: it cleans up, fxn returns, and the deferred
\* g.shutdown.Done() runs (the context stays done, so the worker's read of it
\* and its return are taken as one step)
WorkerWake(u) ==
    /\ Run /\ upc[u] = "block" /\ ctx
    /\ shutdown' = shutdown - 1
    /\ upc' = [upc EXCEPT ![u] = "returned"]
    /\ dlog' = [dlog EXCEPT ![u] = Append(@, "shutdown")]
    /\ UNCHANGED << fvars, ovars, nvars, init, ctx, stop, wait, bye, exit, register, svars, avars, ready0, pc,
                    lvars, shape, xvars, hvars >>

\* the deferred g.shutdown.Done() after fxn() of a func(), and of a unit that
\* matched no case
WorkerExit(u) ==
    /\ Run /\ upc[u] = "exit"
    /\ shutdown' = shutdown - 1
    /\ upc' = [upc EXCEPT ![u] = "returned"]
    /\ dlog' = [dlog EXCEPT ![u] = Append(@, "shutdown")]
    /\ UNCHANGED << fvars, ovars, nvars, init, ctx, stop, wait, bye, exit, register, svars, avars, ready0, pc,
                    lvars, shape, xvars, hvars >>

\* ---------------------------------------------------------------- graceful.Wait
\* variant: Wait() that only sleeps and never waits on g.init
CallWait_NoBlock(t) ==
    /\ Idle(t)
    /\ op' = [op EXCEPT ![t] = "Wait"]
    /\ calls' = calls + 1
    /\ snap' = [snap EXCEPT ![t] = Registered]
    /\ Goto(t, "ret")
    /\ ready0' = (ready0 \/ NoneSpawned)
    /\ UNCHANGED << fvars, ovars, nvars, gvars, svars, avars, dlog, obj, idx, rlen, code, uvars, xvars, reported,
                    passed, events, cancels, fired, terminal, runs, hlog,
                    active, policy >>

\* the call Wait(): g.init.Wait() returns at once, or blocks
CallWait(t) ==
    /\ Idle(t)
    /\ op' = [op EXCEPT ![t] = "Wait"]
    /\ calls' = calls + 1
    /\ snap' = [snap EXCEPT ![t] = Registered]
    /\ Goto(t, IF init = 0 THEN "ret" ELSE "rWait")
    /\ ready0' = (ready0 \/ (init = 0 /\ NoneSpawned))
    /\ UNCHANGED << fvars, ovars, nvars, gvars, svars, avars, dlog, obj, idx, rlen, code, uvars, xvars, reported,
                    passed, events, cancels, fired, terminal, runs, hlog,
                    active, policy >>

\* the blocked g.init.Wait() is released; g.framer("initilization complete")
WaitInit(t) ==
    /\ Run /\ pc[t] = "rWait" /\ init = 0
    /\ Goto(t, "ret")
    /\ ready0' = (ready0 \/ NoneSpawned)
    /\ UNCHANGED << fvars, ovars, nvars, gvars, svars, avars, dlog, lvars, uvars, xvars, hvars >>

\* variant: Cancel() without the compare-and-swap on g.stop
CancelCAS_NoFlag(t) ==
    /\ Idle(t)
    /\ op' = [op EXCEPT ![t] = "Cancel"]
    /\ calls' = calls + 1
    /\ stop' = TRUE
    /\ Log("shutdown initiated")
    /\ Goto(t, "cCancel")
    /\ UNCHANGED << fvars, ovars, nvars, init, shutdown, ctx, wait, bye, exit, register, svars, avars, dvars,
                    obj, idx, rlen, code, uvars, xvars, reported, passed,
                    cancels, fired, terminal, runs, hlog, active, policy, snap >>

\* -------------------------------------------------------------- graceful.Cancel
\* the call Cancel():
\* if g.stop.CompareAndSwap(false, true) { g.framer("shutdown initiated")
CancelCAS(t) ==
    /\ Idle(t)
    /\ op' = [op EXCEPT ![t] = "Cancel"]
    /\ calls' = calls + 1
    /\ IF stop = FALSE
       THEN /\ stop' = TRUE
            /\ Log("shutdown initiated")
            /\ Goto(t, "cCancel")
       ELSE /\ UNCHANGED << fvars, ovars, nvars, stop, events >>
            /\ Goto(t, "ret")
    /\ UNCHANGED << fvars, ovars, nvars, init, shutdown, ctx, wait, bye, exit, register, svars, avars, dvars,
                    obj, idx, rlen, code, uvars, xvars, reported, passed,
                    cancels, fired, terminal, runs, hlog, active, policy, snap >>

\* a blocking worker calls g.Cancel() from its own goroutine (aux is then the
\* worker's goroutine until the call returns): the same first step
WorkerCancel(u) ==
    /\ Idle(Aux) /\ upc[u] = "block"
    /\ upc' = [upc EXCEPT ![u] = "cancel"]
    /\ op' = [op EXCEPT ![Aux] = "Cancel"]
    /\ calls' = calls + 1
    /\ IF stop = FALSE
       THEN /\ stop' = TRUE
            /\ Log("shutdown initiated")
            /\ Goto(Aux, "cCancel")
       ELSE /\ UNCHANGED << fvars, ovars, nvars, stop, events >>
            /\ Goto(Aux, "ret")
    /\ UNCHANGED << fvars, ovars, nvars, init, shutdown, ctx, wait, bye, exit, register, svars, avars, dvars,
                    obj, idx, rlen, code, shape, xvars, reported, passed,
                    cancels, fired, terminal, runs, hlog, active, policy, snap >>

\* variant: Cancel() that installs a fresh context when g.ctx is done already
CancelCancel_Renew(t) ==
    /\ Run /\ pc[t] = "cCancel"
    /\ ctx' = ~ctx
    /\ fired' = IF ctx THEN fired ELSE Bump(fired)
    /\ cancels' = Bump(cancels)
    /\ trigger' = IF ctx THEN trigger ELSE "cancel"
    /\ Goto(t, "sCAS")
    /\ UNCHANGED << fvars, ovars, nvars, init, shutdown, stop, wait, bye, exit, register, svars, hsnap, dvars,
                    lvars, uvars, xvars, reported, passed, events, terminal,
                    runs, hlog, active, policy, snap >>

\* variant: Cancel() that calls g.Shutdown() before g.cancel()
CancelCancel_NoFire(t) ==
    /\ Run /\ pc[t] = "cCancel"
    /\ Goto(t, "sCAS")
    /\ UNCHANGED << fvars, ovars, nvars, gvars, svars, avars, dvars, lvars, uvars, xvars, hvars >>

\* g.cancel(), then the call g.Shutdown()
CancelCancel(t) ==
    /\ Run /\ pc[t] = "cCancel"
    /\ ctx' = TRUE
    /\ fired' = IF ctx THEN fired ELSE Bump(fired)
    /\ cancels' = Bump(cancels)
    /\ trigger' = IF ctx THEN trigger ELSE "cancel"
    /\ Goto(t, "sCAS")
    /\ UNCHANGED << fvars, ovars, nvars, init, shutdown, stop, wait, bye, exit, register, svars, hsnap, dvars,
                    lvars, uvars, xvars, reported, passed, events, terminal,
                    runs, hlog, active, policy, snap >>

\* ------------------------------------------------------------ graceful.Shutdown
\* variant: Shutdown() without the compare-and-swap on g.wait
WaitCAS_NoFlag(t) ==
    /\ Pass(t, "wait", TRUE)
    /\ wait' = TRUE
    /\ Goto(t, "sInit")

\* if g.wait.CompareAndSwap(false, true)
WaitCAS(t) ==
    /\ Pass(t, "wait", wait = FALSE)
    /\ IF wait = FALSE
       THEN /\ wait' = TRUE
            /\ Goto(t, "sInit")
       ELSE /\ wait' = wait
            /\ Goto(t, "ret")

\* the call Shutdown() by a caller
CallShutdown(t) ==
    /\ Idle(t)
    /\ op' = [op EXCEPT ![t] = "Shutdown"]
    /\ calls' = calls + 1
    /\ WaitCAS(t)
    /\ UNCHANGED << fvars, ovars, nvars, init, shutdown, ctx, stop, bye, exit, register, svars, avars, dvars,
                    obj, idx, rlen, code, uvars, xvars, reported, events,
                    cancels, fired, terminal, runs, hlog, active, policy, snap >>

\* the call g.Shutdown() inside Cancel and in the watcher
ShutdownCAS(t) ==
    /\ Run /\ pc[t] = "sCAS"
    /\ WaitCAS(t)
    /\ UNCHANGED << fvars, ovars, nvars, init, shutdown, ctx, stop, bye, exit, register, svars, avars, dvars,
                    lvars, uvars, xvars, reported, events, cancels, fired,
                    terminal, runs, hlog, active, policy, snap >>

\* g.init.Wait()
ShutdownInit(t) ==
    /\ Run /\ pc[t] = "sInit" /\ init = 0
    /\ Pass(t, "init", init = 0)
    /\ Goto(t, "sCtx")
    /\ UNCHANGED << fvars, ovars, nvars, gvars, svars, avars, dvars, lvars, uvars, xvars, reported, events,
                    cancels, fired, terminal, runs, hlog, active, policy, snap >>

\* variant: Shutdown() that does not receive from g.ctx.Done()
ShutdownCtx_NoBlock(t) ==
    /\ Run /\ pc[t] = "sCtx"
    /\ Pass(t, "ctx", ctx)
    /\ Goto(t, "sShut")
    /\ UNCHANGED << fvars, ovars, nvars, gvars, svars, avars, dvars, lvars, uvars, xvars, reported, events,
                    cancels, fired, terminal, runs, hlog, active, policy, snap >>

\* <-g.ctx.Done()
ShutdownCtx(t) ==
    /\ Run /\ pc[t] = "sCtx" /\ ctx
    /\ Pass(t, "ctx", ctx)
    /\ Goto(t, "sShut")
    /\ UNCHANGED << fvars, ovars, nvars, gvars, svars, avars, dvars, lvars, uvars, xvars, reported, events,
                    cancels, fired, terminal, runs, hlog, active, policy, snap >>

\* g.shutdown.Wait()
ShutdownWait(t) ==
    /\ Run /\ pc[t] = "sShut" /\ shutdown = 0
    /\ Pass(t, "shutdown", shutdown = 0)
    /\ Goto(t, "sBye")
    /\ UNCHANGED << fvars, ovars, nvars, gvars, svars, avars, dvars, lvars, uvars, xvars, reported, events,
                    cancels, fired, terminal, runs, hlog, active, policy, snap >>

\* variant: the terminal actions without the compare-and-swap on g.bye
ShutdownBye_NoFlag(t) ==
    /\ Run /\ pc[t] = "sBye"
    /\ terminal' = Bump(terminal)
    /\ rlen' = [rlen EXCEPT ![t] = Len(register)]
    /\ hsnap' = Len(register)
    /\ idx' = [idx EXCEPT ![t] = 1]
    /\ Goto(t, "sLoop")
    /\ UNCHANGED << fvars, ovars, nvars, gvars, svars, trigger, dvars, op, calls, obj, code, uvars,
                    xvars, reported, passed, events, cancels, fired, runs,
                    hlog, active, policy, snap >>

\* if g.bye.CompareAndSwap(false, true) { for i := range g.register
ShutdownBye(t) ==
    /\ Run /\ pc[t] = "sBye"
    /\ IF bye = FALSE
       THEN /\ bye' = TRUE
            /\ terminal' = Bump(terminal)
            /\ rlen' = [rlen EXCEPT ![t] = Len(register)]
            /\ hsnap' = Len(register)
            /\ idx' = [idx EXCEPT ![t] = 1]
            /\ Goto(t, "sLoop")
       ELSE /\ UNCHANGED << fvars, ovars, nvars, bye, terminal, rlen, hsnap, idx >>
            /\ Goto(t, "ret")
    /\ UNCHANGED << fvars, ovars, nvars, init, shutdown, ctx, stop, wait, exit, register, svars, trigger, dvars,
                    op, calls, obj, code, uvars, xvars, reported, passed,
                    events, cancels, fired, runs, hlog, active, policy, snap >>

\* variant: the loop over g.register runs from the last func to the first
HookCall_Lifo(t) ==
    /\ Run /\ pc[t] = "sLoop" /\ idx[t] <= rlen[t]
    /\ LET h == register[rlen[t] + 1 - idx[t]]
       IN  /\ runs' = [runs EXCEPT ![h] = Bump(@)]
           /\ hlog' = Append(hlog, h)
           /\ active' = active \cup {h}
    /\ Goto(t, "sHook")
    /\ UNCHANGED << fvars, ovars, nvars, gvars, svars, avars, dvars, lvars, uvars, xvars, reported, passed,
                    events, cancels, fired, terminal, policy, snap >>

\* g.register[i]() is called
HookCall(t) ==
    /\ Run /\ pc[t] = "sLoop" /\ idx[t] <= rlen[t]
    /\ LET h == register[idx[t]]
       IN  /\ runs' = [runs EXCEPT ![h] = Bump(@)]
           /\ hlog' = Append(hlog, h)
           /\ active' = active \cup {h}
    /\ Goto(t, "sHook")
    /\ UNCHANGED << fvars, ovars, nvars, gvars, svars, avars, dvars, lvars, uvars, xvars, reported, passed,
                    events, cancels, fired, terminal, policy, snap >>

\* g.register[i]() returns
HookReturn(t) ==
    /\ Run /\ pc[t] = "sHook"
    /\ active' = active \ {register[idx[t]]}
    /\ idx' = [idx EXCEPT ![t] = @ + 1]
    /\ Goto(t, "sLoop")
    /\ UNCHANGED << fvars, ovars, nvars, gvars, svars, avars, dvars, op, calls, obj, rlen, code, uvars, xvars,
                    reported, passed, events, cancels, fired, terminal, runs,
                    hlog, policy, snap >>

\* after the loop: g.framer("bye"); time.Sleep; if g.exit != 0
ShutdownExit(t) ==
    /\ Run /\ pc[t] = "sLoop" /\ idx[t] > rlen[t]
    /\ Log("bye")
    /\ policy' = Bump(policy)
    /\ code' = [code EXCEPT ![t] = exit]
    /\ Goto(t, IF exit # 0 THEN "sOsExit" ELSE "ret")
    /\ UNCHANGED << fvars, ovars, nvars, gvars, svars, avars, dvars, op, calls, obj, idx, rlen, uvars, xvars,
                    reported, passed, cancels, fired, terminal, runs, hlog,
                    active, snap >>

\* os.Exit(g.exit): g.exit is a plain field that SetExit writes without
\* synchronization, so the argument is the value the test read or a second load
ShutdownOsExit(t) ==
    /\ Run /\ pc[t] = "sOsExit"
    /\ \E v \in {code[t], exit} :
          /\ proc' = "exited"
          /\ status' = v
    /\ UNCHANGED << fvars, ovars, nvars, gvars, svars, avars, dvars, pc, lvars, uvars, hvars >>

\* ------------------------------------------- NewGraceful's watcher goroutine
\* select: case <-g.ctx.Done()
WatcherCtx ==
    /\ Run /\ pc[Watcher] = "wSelect" /\ ctx
    /\ Goto(Watcher, "sCAS")
    /\ UNCHANGED << fvars, ovars, nvars, gvars, svars, avars, dvars, lvars, uvars, xvars, hvars >>

\* variant: the watcher takes the signal and leaves Notify in effect
WatcherSig_NoStop ==
    /\ Run /\ pc[Watcher] = "wSelect" /\ notify
    /\ notify' = notify
    /\ Goto(Watcher, "wCancel")
    /\ UNCHANGED << fvars, ovars, nvars, gvars, avars, dvars, lvars, uvars, xvars, hvars >>

\* the operating system delivers os.Interrupt, SIGTERM or SIGHUP while Notify
\* is in effect, and the select takes case <-sig; then signal.Stop(sig).
\* (A signal that no select takes stays in the channel's buffer; one delivered
\* after signal.Stop takes the default action. Neither changes *graceful.)
WatcherSig ==
    /\ Run /\ pc[Watcher] = "wSelect" /\ notify
    /\ notify' = FALSE
    /\ Goto(Watcher, "wCancel")
    /\ UNCHANGED << fvars, ovars, nvars, gvars, avars, dvars, lvars, uvars, xvars, hvars >>

\* g.cancel(), then the call g.Shutdown()
WatcherCancel ==
    /\ Run /\ pc[Watcher] = "wCancel"
    /\ ctx' = TRUE
    /\ fired' = IF ctx THEN fired ELSE Bump(fired)
    /\ trigger' = IF ctx THEN trigger ELSE "signal"
    /\ Goto(Watcher, "sCAS")
    /\ UNCHANGED << fvars, ovars, nvars, init, shutdown, stop, wait, bye, exit, register, svars, hsnap, dvars,
                    lvars, uvars, xvars, reported, passed, events, cancels,
                    terminal, runs, hlog, active, policy, snap >>

\* a further os.Interrupt, SIGTERM or SIGHUP once signal.Stop(sig) has undone
\* Notify: the signal has its default disposition again and ends the process
SignalDefault ==
    /\ Alive /\ notify = FALSE
    /\ proc' = "killed"
    /\ UNCHANGED << fvars, ovars, nvars, gvars, svars, avars, dvars, pc, lvars, uvars, status, hvars >>

\* ------------------------------------------------------------ specification
Batches == UNION {[1..n -> Shapes] : n \in 0..MaxUnits}

\* construction, Init, the workers, Cancel, Shutdown and the watcher
Lifecycle ==
    \/ \E t \in Threads : Return(t)
    \/ \E t \in Callers, ks \in Batches : InitAdd(t, ks)
    \/ \E t \in Callers : InitSpawn(t)
    \/ \E t \in Callers : InitReturn(t)
    \/ \E u \in UnitIds : WorkerStart(u)
    \/ \E u \in UnitIds : FuncReturn(u)
    \/ \E u \in UnitIds : WorkerReady(u)
    \/ \E u \in UnitIds : WorkerWake(u)
    \/ \E u \in UnitIds : WorkerExit(u)
    \/ \E t \in Callers : CancelCAS(t)
    \/ \E t \in Callers : CancelCancel(t)
    \/ \E t \in Callers : CallShutdown(t)
    \/ \E t \in Threads : ShutdownCAS(t)
    \/ \E t \in Threads : ShutdownInit(t)
    \/ \E t \in Threads : ShutdownCtx(t)
    \/ \E t \in Threads : ShutdownWait(t)
    \/ \E t \in Threads : ShutdownBye(t)
    \/ \E t \in Threads : ShutdownExit(t)
    \/ WatcherCtx
    \/ WatcherSig
    \/ WatcherCancel

\* the ready-wait
Readiness ==
    \/ \E t \in Callers : CallWait(t)
    \/ \E t \in Callers : WaitInit(t)

\* the registered funcs
Hooks ==
    \/ \E t \in Callers : Register(t)
    \/ \E t \in Threads : HookCall(t)
    \/ \E t \in Threads : HookReturn(t)

\* the exit code
ExitCode ==
    \/ \E t \in Callers, i \in ExitCodes : SetExit(t, i)
    \/ \E t \in Threads : ShutdownOsExit(t)

\* workers that report late or never
Workers ==
    \/ \E u \in UnitIds : WorkerLate(u)
    \/ \E u \in UnitIds : WorkerSilent(u)

\* signals after signal.Stop
Signals == SignalDefault

\* the two switches of the event log
Logging ==
    \/ \E t \in Callers : Silent(t)
    \/ \E t \in Callers : Frame(t)

\* workers that call Cancel() themselves
Self == \E u \in UnitIds : WorkerCancel(u)

Next ==
    \/ Lifecycle \/ Readiness \/ Hooks \/ ExitCode \/ Workers \/ Signals
    \/ Self \/ Logging

\* every method of *graceful
Spec == Init /\ [][Next]_vars
\* startup and shutdown, with no registered func and the exit code 0
SpecStop == Init /\ [][Lifecycle]_vars
\* startup and shutdown with the ready-wait
SpecReady == Init /\ [][Lifecycle \/ Readiness]_vars
\* startup and shutdown with registered funcs
SpecHooks == Init /\ [][Lifecycle \/ Hooks]_vars
\* startup, ready-wait and shutdown with workers that report late or never
SpecWorkers == Init /\ [][Lifecycle \/ Readiness \/ Workers]_vars
\* startup and shutdown with signals after signal.Stop
SpecSignal == Init /\ [][Lifecycle \/ Signals]_vars

\* startup and shutdown with the switches of the event log
SpecLog == Init /\ [][Lifecycle \/ Logging]_vars

\* batches of objects of the three supported types
Contract == UNION {[1..n -> Shapes \ {"other"}] : n \in 0..MaxUnits}
\* the steps the Go scheduler takes by itself once a goroutine can run
Progress ==
    \/ \E t \in Threads : Return(t)
    \/ \E t \in Callers : InitSpawn(t)
    \/ \E t \in Callers : InitReturn(t)
    \/ \E u \in UnitIds : WorkerStart(u)
    \/ \E u \in UnitIds : FuncReturn(u)
    \/ \E u \in UnitIds : WorkerReady(u)
    \/ \E u \in UnitIds : WorkerLate(u)
    \/ \E u \in UnitIds : WorkerWake(u)
    \/ \E u \in UnitIds : WorkerExit(u)
    \/ \E t \in Callers : CancelCancel(t)
    \/ \E t \in Threads : ShutdownCAS(t)
    \/ \E t \in Threads : ShutdownInit(t)
    \/ \E t \in Threads : ShutdownCtx(t)
    \/ \E t \in Threads : ShutdownWait(t)
    \/ \E t \in Threads : ShutdownBye(t)
    \/ \E t \in Threads : HookCall(t)
    \/ \E t \in Threads : HookReturn(t)
    \/ \E t \in Threads : ShutdownExit(t)
    \/ WatcherCtx
    \/ WatcherCancel
\* the calls the program makes and the signal the operating system sends
Requests ==
    \/ \E t \in Callers, ks \in Contract : InitAdd(t, ks)
    \/ \E t \in Callers : Register(t)
    \/ \E t \in Callers : CancelCAS(t)
    \/ \E t \in Callers : CallShutdown(t)
    \/ WatcherSig
\* workers that keep their contract, under a fair scheduler
SpecLive == Init /\ [][Requests \/ Progress]_vars /\ WF_vars(Progress)
\* the same, with workers that call Cancel() themselves
SpecSelf == Init /\ [][Requests \/ Self \/ Progress]_vars /\ WF_vars(Progress)

\* ------------------------------------------------------------------ claims
\* a spawned goroutine of a unit that has not returned yet
Running(u) == upc[u] \in {"spawned", "body", "block", "cancel", "exit"}
\* the record of a caller that won g.wait and passed the three waits in order
Order == << <<"wait", TRUE>>, <<"init", TRUE>>, <<"ctx", TRUE>>,
            <<"shutdown", TRUE>> >>
\* t entered Shutdown (directly, from Cancel, or as the watcher)
InShutdown(t) == passed[t] # << >>
\* t is executing the terminal actions
Terminal(t) == pc[t] \in {"sLoop", "sHook", "sOsExit"}

\* C1: every call of Shutdown (direct, inside Cancel, or the watcher's)
\* returns to its caller only after every spawned worker goroutine returned.
C1_ShutdownReturnsAfterWorkers ==
    \A t \in Threads :
        (pc[t] = "ret" /\ InShutdown(t)) => \A u \in UnitIds : ~Running(u)

\* C2: every registered func runs at most once, in registration order, one
\* at a time, only by a caller that passed the shutdown barrier at zero, and
\* all of them have run exactly once before the exit code is looked at.
C2_HooksOnceInOrder ==
    /\ \A h \in HookIds : runs[h] <= 1
    /\ Len(hlog) <= Len(register)
    /\ \A i \in 1..Len(hlog) : hlog[i] = register[i]
    /\ active \subseteq (IF hlog = << >> THEN {} ELSE {hlog[Len(hlog)]})
    /\ \A t \in Threads : pc[t] \in {"sLoop", "sHook"} => passed[t] = Order
    /\ \A t \in Threads :
           (pc[t] = "sLoop" /\ idx[t] > rlen[t]) =>
               /\ active = {}
               /\ hlog = SubSeq(register, 1, hsnap)
    /\ policy >= 1 =>
           /\ policy = 1
           /\ active = {}
           /\ hlog = SubSeq(register, 1, hsnap)
           /\ \A h \in RangeOf(hlog) : runs[h] = 1
C2_Witness ==
    /\ policy = 1 /\ Len(hlog) = 2
    /\ \E u \in UnitIds : upc[u] = "returned"

\* C3: however many times Cancel is called, "shutdown initiated" is emitted
\* at most once, Cancel invokes the cancel function at most once, and the
\* terminal actions run at most once.
C3_CancelIdempotent ==
    /\ events["shutdown initiated"] <= 1
    /\ cancels <= 1
    /\ terminal <= 1
    /\ policy <= 1
    /\ events["bye"] <= 1
    /\ \A h \in HookIds : runs[h] <= 1
C3_Witness ==
    /\ events["shutdown initiated"] = 1
    /\ \E t1, t2 \in Callers :
           /\ t1 # t2
           /\ op[t1] = "Cancel" /\ pc[t1] \notin {"idle", "cCancel"}
           /\ op[t2] = "Cancel" /\ pc[t2] = "ret"

\* C4: a call of Cancel returns to its caller only after all workers have
\* returned and the terminal actions have been carried out; stated for the
\* call that wins g.stop, the only one that goes on to cancel and Shutdown.
C4_CancelBlocksUntilStopped ==
    \A t \in Callers :
        (pc[t] = "ret" /\ op[t] = "Cancel" /\ InShutdown(t)) =>
            /\ \A u \in UnitIds : ~Running(u)
            /\ policy >= 1

C6_FirstTriggerOnly ==
    [][ /\ trigger = "signal" => events' = events
        /\ (trigger = "cancel" /\ pc[Watcher] \in {"wSelect", "wCancel"}
              /\ pc'[Watcher] # pc[Watcher]) => gvars' = gvars ]_vars

\* C7: a caller is in the terminal actions only after winning g.wait and
\* then passing g.init at zero, the done context and g.shutdown at zero, in
\* that order, and never while the context is not done.
C7_ThreeWaitsInOrder ==
    /\ \A t \in Threads :
           /\ pc[t] = "sInit" => passed[t] = SubSeq(Order, 1, 1)
           /\ pc[t] = "sCtx" => passed[t] = SubSeq(Order, 1, 2)
           /\ pc[t] = "sShut" => passed[t] = SubSeq(Order, 1, 3)
           /\ (pc[t] = "sBye" \/ Terminal(t)) => passed[t] = Order
           /\ Terminal(t) => ctx
    /\ bye => ctx
    /\ terminal >= 1 => ctx
C7_Witness ==
    /\ \E t \in Threads : pc[t] = "sLoop"
    /\ \E u \in UnitIds : upc[u] = "returned"

C9_ExitPolicy ==
    /\ policy <= 1
    /\ proc = "exited" =>
           /\ policy = 1 /\ active = {}
           /\ status # 0
           /\ status = exit

\* C10: Init of an object that is none of the three func types ends the
\* process: no such unit is registered while the process runs.
C10_BadShapeIsFatal ==
    \A u \in Registered : shape[u] = "other" => ~Alive

\* every goroutine that Init started has returned, and none is still to start
AllReturned == \A u \in UnitIds : upc[u] \in {"none", "returned"}
\* the terminal actions are over: the funcs registered when g.bye was won
\* have run in order and the exit code has been looked at
Stopped == policy >= 1 /\ active = {} /\ hlog = SubSeq(register, 1, hsnap)

Decs(u, b) == Len(SelectSeq(dlog[u], LAMBDA e : e = b))

\* C12: g.init is never negative; it counts the Init calls in progress (the
\* reserved slot, released when Init returns) and the units that have not
\* decremented it; no unit decrements it twice; a func() has decremented it
\* exactly when fxn has returned, a func(ctx) exactly when its goroutine
\* has started, a func(ctx, wg) not before its worker runs.
C12_InitBarrier ==
    /\ init >= 0
    /\ init = Cardinality({t \in Callers : pc[t] = "iLoop"})
              + Cardinality({u \in Known : Decs(u, "init") = 0})
    /\ \A u \in UnitIds :
           /\ Decs(u, "init") <= 1
           /\ reported[u] <=> Decs(u, "init") = 1
           /\ shape[u] = "func" =>
                  (Decs(u, "init") = 1 <=> upc[u] \in {"exit", "returned"})
           /\ shape[u] = "ctx" =>
                  (Decs(u, "init") = 1 <=> upc[u] \in {"block", "returned"})
           /\ shape[u] = "ctxwg" =>
                  (Decs(u, "init") = 1 => upc[u] \in {"block", "exit", "returned"})
C12_Witness ==
    /\ init = 0
    /\ \E u \in UnitIds : shape[u] = "func" /\ Decs(u, "init") = 1
    /\ \A t \in Callers : pc[t] = "idle"

\* C13: a unit decrements g.shutdown only after its own decrement of g.init:
\* a func() or func(ctx) unit that has decremented g.shutdown has decremented
\* g.init before, and so has a func(ctx, wg) unit whose worker calls
\* wg.Done() at all, early or by defer.
C13_InitBeforeShutdown ==
    \A u \in UnitIds :
        /\ (Decs(u, "init") >= 1 /\ Decs(u, "shutdown") >= 1) =>
               dlog[u] = << "init", "shutdown" >>
        /\ (shape[u] \in {"func", "ctx"} /\ Decs(u, "shutdown") >= 1) =>
               dlog[u] = << "init", "shutdown" >>
        /\ (shape[u] \in {"func", "ctx"} /\ upc[u] = "returned") => reported[u]
C13_Witness ==
    \E u \in UnitIds :
        /\ shape[u] = "ctxwg" /\ dlog[u] = << "init", "shutdown" >>
        /\ \E t \in Callers : pc[t] = "rWait"

\* C14: g.shutdown is never negative and equals the number of goroutines of
\* units that have been started and have not returned; each decrements it
\* once, when it returns.
C14_ShutdownBarrier ==
    /\ shutdown >= 0
    /\ shutdown = Cardinality({u \in UnitIds : Running(u)})
    /\ shutdown = 0 => \A u \in UnitIds : ~Running(u)
    /\ \A u \in UnitIds :
           /\ Decs(u, "shutdown") <= 1
           /\ upc[u] = "returned" <=> Decs(u, "shutdown") = 1
C14_Witness ==
    /\ shutdown = 0
    /\ \E u \in UnitIds : upc[u] = "returned"
    /\ \E t \in Threads : pc[t] = "sShut"

\* C15: while an Init call is in progress g.init is at least 1 plus the
\* number of its units that have not reported, from before the first unit
\* is started until Init returns, and no ready-wait returns meanwhile.
C15_SlotHeldDuringInit ==
    \A t \in Callers :
        pc[t] = "iLoop" =>
            /\ init >= 1 + Cardinality({u \in RangeOf(obj[t]) : ~reported[u]})
            /\ \A w \in Callers : ~(pc[w] = "ret" /\ op[w] = "Wait")
C15_Witness ==
    \E t, w \in Callers :
        /\ pc[t] = "iLoop" /\ Len(obj[t]) >= 1
        /\ \A u \in RangeOf(obj[t]) : reported[u]
        /\ pc[w] = "rWait"

\* C16 as claimed: in an execution in which Init registers a unit, no
\* ready-wait call, made before, during or after that Init call, has
\* returned while no unit had been spawned.
C16_NeverReadyBeforeSpawn == ~(ready0 /\ Known # {})
\* C16: a ready-wait call does not return while an object handed to Init
\* (from g.init.Add on) has not been spawned or its Init call has not
\* returned; a call that finds g.init at zero before that returns at once.
C16_ReadyAfterInitAdded ==
    \A t \in Callers :
        (pc[t] = "ret" /\ op[t] = "Wait") =>
            /\ \A u \in UnitIds : upc[u] # "queued"
            /\ \A c \in Callers : pc[c] # "iLoop"
            /\ Known # {} => ~NoneSpawned
C16_Witness ==
    \E t \in Callers :
        /\ pc[t] = "ret" /\ op[t] = "Wait"
        /\ Known # {} /\ snap[t] = {}

\* the terminal actions are over, no call is in progress and no goroutine of
\* a unit is left: whatever happens next is a later call or a later signal
Quiet ==
    /\ Stopped /\ AllReturned
    /\ \A t \in Callers : pc[t] = "idle"
    /\ pc[Watcher] = "done"

\* C17: once the terminal actions are over, no later call has an effect: no
\* goroutine is started, neither barrier changes, the context and the
\* three flags stay as they are, and no registered func is run.
C17_NothingAfterStopped ==
    [][ Quiet => /\ init' = init /\ shutdown' = shutdown
                 /\ upc' = upc /\ shape' = shape
                 /\ ctx' = ctx /\ stop' = stop /\ wait' = wait /\ bye' = bye
                 /\ runs' = runs /\ events' = events ]_vars

\* the step in which t calls Shutdown() with g.wait set, directly or from
\* Cancel() or the watcher, or calls Cancel() with g.stop set
Repeated(t) ==
    \/ pc[t] = "idle" /\ op'[t] = "Shutdown" /\ wait
    \/ pc[t] = "sCAS" /\ pc'[t] # "sCAS" /\ wait
    \/ pc[t] = "idle" /\ op'[t] = "Cancel" /\ stop

\* C18: a Shutdown() call made when g.wait is set and a Cancel() call made
\* when g.stop is set return at once and leave the context, both barriers,
\* the three flags, g.register and g.exit as they are, run no registered
\* func, emit no event and do not end the process.
C18_RepeatedCallsNoOp ==
    [][ \A t \in Threads :
            Repeated(t) =>
                /\ gvars' = gvars
                /\ runs' = runs /\ hlog' = hlog /\ events' = events
                /\ cancels' = cancels
                /\ proc' = proc
                /\ pc'[t] = "ret" ]_vars
C18_Witness ==
    /\ stop /\ Len(register) >= 1
    /\ \E t \in Callers :
           /\ pc[t] = "ret" /\ op[t] = "Shutdown"
           /\ passed[t] = << << "wait", FALSE >> >>

\* C19: the watcher takes one signal, then Notify is undone for good and the
\* watcher makes the context done if it is not yet; the context becomes done
\* once; a further signal changes no field of *graceful and starts neither
\* a second "shutdown initiated" nor a second run of the terminal actions.
C19_OneSignal ==
    /\ [](pc[Watcher] = "wCancel" => ~notify)
    /\ [](trigger = "signal" => (ctx /\ ~notify /\ fired = 1))
    /\ [](fired <= 1 /\ terminal <= 1 /\ policy <= 1)
    /\ [][~notify => ~notify']_vars
    /\ [][notify' # notify => (pc[Watcher] = "wSelect" /\ pc'[Watcher] = "wCancel")]_vars
    /\ [][pc'[Watcher] = "wCancel" => pc[Watcher] \in {"wSelect", "wCancel"}]_vars
    /\ [][proc' = "killed" =>
            /\ gvars' = gvars /\ pc' = pc /\ upc' = upc
            /\ events' = events /\ terminal' = terminal /\ runs' = runs ]_vars
C19_Witness ==
    /\ proc = "killed" /\ trigger = "signal"
    /\ terminal = 1

\* the worker of a func(ctx, wg) unit has returned without calling init.Done()
Mute(u) == shape[u] = "ctxwg" /\ ~reported[u] /\ upc[u] \in {"exit", "returned"}
\* positions of a thread that has not passed g.init.Wait() in Shutdown
BeforeInitWait == {"idle", "ret", "done", "iLoop", "rWait", "cCancel", "sCAS",
                   "sInit", "wSelect", "wCancel"}

\* C20: once a func(ctx, wg) worker has returned without calling init.Done(),
\* it stays that way, g.init stays above zero, no ready-wait returns, and a
\* Shutdown that has not passed g.init.Wait() never passes it, so that the
\* terminal actions do not start, although the context is done.
C20_SilentWorkerBlocks ==
    /\ []((\E u \in UnitIds : Mute(u)) =>
            /\ ctx /\ init >= 1
            /\ \A t \in Callers : ~(pc[t] = "ret" /\ op[t] = "Wait")
            /\ \A t \in Callers : ~ENABLED WaitInit(t)
            /\ \A t \in Threads : ~ENABLED ShutdownInit(t))
    /\ [][\A u \in UnitIds : Mute(u) => Mute(u)']_vars
    /\ [][((\E u \in UnitIds : Mute(u))
            /\ \A t \in Threads : pc[t] \in BeforeInitWait) =>
                /\ \A t \in Threads : pc'[t] \in BeforeInitWait
                /\ terminal' = terminal /\ bye' = bye ]_vars
C20_Witness ==
    /\ ctx /\ terminal = 0
    /\ \E u \in UnitIds : Mute(u) /\ upc[u] = "returned"
    /\ \E t \in Threads : pc[t] = "sInit"
    /\ \E w \in Callers : pc[w] = "rWait"

\* C25: whenever a registered func is executing or the exit code is being
\* looked at or acted on, g.shutdown is zero and no goroutine of a unit is
\* still running.
C25_NoWorkerDuringTerminal ==
    (active # {} \/ \E t \in Threads : Terminal(t)) =>
        /\ shutdown = 0
        /\ \A u \in UnitIds : ~Running(u)

\* C27: g.stop, g.wait and g.bye go from false to true only, each by the
\* compare-and-swap of the method that owns it; the terminal actions are
\* begun once, exactly when g.bye is set; g.bye implies g.wait and a done
\* context.
C27_FlagsOneShot ==
    /\ [][ /\ stop => stop'
           /\ wait => wait'
           /\ bye => bye' ]_vars
    /\ [][ /\ stop' # stop => \E t \in Callers : pc[t] = "idle" /\ op'[t] = "Cancel"
           /\ wait' # wait => \E t \in Threads :
                                  /\ pc[t] \in {"idle", "sCAS"}
                                  /\ pc'[t] = "sInit"
           /\ bye' # bye => \E t \in Threads : pc[t] = "sBye" /\ pc'[t] = "sLoop"
         ]_vars
    /\ [](terminal <= 1 /\ (bye <=> terminal = 1))
    /\ [](bye => (wait /\ ctx))
C27_Witness ==
    /\ stop /\ wait /\ bye /\ terminal = 1
    /\ trigger = "signal"
    /\ \E t \in Callers : pc[t] = "ret" /\ passed[t] = << << "wait", FALSE >> >>

\* C28: for a func(ctx) unit g.init is decremented by the goroutine's first
\* step, before fxn is called, and by no other step: the unit has reported
\* whenever its worker runs or has returned, and g.shutdown is decremented
\* only by the worker's return.
C28_BareBlocker ==
    /\ [](\A u \in UnitIds :
            shape[u] = "ctx" =>
                /\ upc[u] \in {"block", "returned"} <=> reported[u]
                /\ upc[u] = "block" => dlog[u] = << "init" >>
                /\ upc[u] = "returned" => dlog[u] = << "init", "shutdown" >>)
    /\ [][ \A u \in UnitIds :
             (shape[u] = "ctx" /\ upc'[u] # upc[u]) =>
                 /\ upc[u] = "queued" => (upc'[u] = "spawned" /\ init' = init)
                 /\ upc[u] = "spawned" =>
                        (upc'[u] = "block" /\ init' = init - 1
                         /\ shutdown' = shutdown)
                 /\ upc[u] = "block" =>
                        (upc'[u] = "returned" /\ init' = init
                         /\ shutdown' = shutdown - 1 /\ ctx) ]_vars
C28_Witness ==
    /\ ~ctx
    /\ \E u \in UnitIds : shape[u] = "ctx" /\ upc[u] = "block"
    /\ \E t \in Callers : pc[t] = "ret" /\ op[t] = "Wait"

\* the scheduler's steps when every func(ctx, wg) worker defers init.Done()
\* to its return (Action.Init01 of env_test.go), with the ready-wait
ProgressDefer ==
    \/ \E t \in Threads : Return(t)
    \/ \E t \in Callers : InitSpawn(t)
    \/ \E t \in Callers : InitReturn(t)
    \/ \E u \in UnitIds : WorkerStart(u)
    \/ \E u \in UnitIds : FuncReturn(u)
    \/ \E u \in UnitIds : WorkerLate(u)
    \/ \E u \in UnitIds : WorkerWake(u)
    \/ \E u \in UnitIds : WorkerExit(u)
    \/ \E t \in Callers : WaitInit(t)
    \/ \E t \in Callers : CancelCancel(t)
    \/ \E t \in Threads : ShutdownCAS(t)
    \/ \E t \in Threads : ShutdownInit(t)
    \/ \E t \in Threads : ShutdownCtx(t)
    \/ \E t \in Threads : ShutdownWait(t)
    \/ \E t \in Threads : ShutdownBye(t)
    \/ \E t \in Threads : ShutdownExit(t)
    \/ WatcherCtx
    \/ WatcherCancel
RequestsDefer ==
    \/ \E t \in Callers, ks \in Contract : InitAdd(t, ks)
    \/ \E t \in Callers : CallWait(t)
    \/ \E t \in Callers : CancelCAS(t)
    \/ \E t \in Callers : CallShutdown(t)
    \/ WatcherSig
\* workers that report by defer, under a fair scheduler
SpecDefer ==
    Init /\ [][RequestsDefer \/ ProgressDefer]_vars /\ WF_vars(ProgressDefer)

\* C21: with a func(ctx, wg) worker that calls wg.Done() by defer, a
\* ready-wait that blocks eventually returns, whether or not the context
\* is ever made done.
C21_ReadyWaitReturns ==
    \A t \in Callers : (pc[t] = "rWait") ~> (pc[t] = "ret")

\* C26: with func(ctx, wg) workers that call wg.Done() by defer, once Cancel
\* has set g.stop or the context is done, eventually g.init and g.shutdown
\* are zero, all workers have returned and the terminal actions are over.
C26_DeferredWorkerNoDeadlock ==
    (stop \/ ctx) ~> (AllReturned /\ Stopped /\ init = 0 /\ shutdown = 0)
C26_Witness ==
    /\ Stopped /\ init = 0 /\ shutdown = 0 /\ trigger = "cancel"
    /\ \E u \in UnitIds : shape[u] = "ctxwg" /\ dlog[u] = << "init", "shutdown" >>

\* C24: a worker's own call of Cancel() eventually returns, the worker then
\* returns, and the terminal actions eventually run.
C24_SelfCancelReturns ==
    \A u \in UnitIds : (upc[u] = "cancel") ~> (upc[u] = "returned" /\ Stopped)

\* C22: Frame() toggles g.frame only and Silent() toggles g.silent only, so
\* each flag is set exactly when its own method was called an odd number of
\* times; after Frame() alone an event is printed without the bar lines.
C22_OwnFlagOnly ==
    /\ silent = toggled["Silent"]
    /\ frame = toggled["Frame"]
    /\ (toggled["Frame"] /\ ~toggled["Silent"]) => framer("bye") = << "bye" >>

\* ------------------------------------------- shutdown.go: standalone Shutdown
\* the signals Shutdown asks signal.Notify for
Caught == {"INT", "TERM", "HUP"}

\* a program that calls Shutdown(ctx, shutdownFunc) instead of using the
\* orchestrator: the call has been made, with a ctx that may be done already
InitShutdown ==
    /\ NewGraceful /\ NoExpire /\ NoParse /\ NoFiles
    /\ sdPc = "call" /\ sdFn \in {"nil", "plain", "cancel"}
    /\ sdCtx \in BOOLEAN /\ sdNotify = FALSE
    /\ sdChan = "none" /\ sdGot = "none" /\ sdRan = 0 /\ sdSent = 0
    /\ sdProc = "running" /\ sdStatus = 0

\* sig := make(chan os.Signal, 1); signal.Notify(sig, ...)
SdNotify ==
    /\ sdProc = "running" /\ sdPc = "call"
    /\ sdNotify' = TRUE
    /\ sdPc' = "select"
    /\ UNCHANGED << grvars, exvars, pvars, nvars, sdFn, sdCtx, sdChan, sdGot, sdRan, sdSent, sdProc,
                    sdStatus >>

\* the owner of ctx cancels it
SdCancel ==
    /\ sdProc = "running" /\ ~sdCtx /\ sdPc # "none"
    /\ sdCtx' = TRUE
    /\ UNCHANGED << grvars, exvars, pvars, nvars, sdPc, sdFn, sdNotify, sdChan, sdGot, sdRan, sdSent,
                    sdProc, sdStatus >>

\* the environment sends one of the three signals: relayed to sig when
\* signal.Notify is in force (dropped when the slot is taken), and otherwise
\* handled by default, which ends the process
SdSignal(sg) ==
    /\ sdProc = "running" /\ sdPc # "none" /\ sdSent < MaxSignals
    /\ sdSent' = sdSent + 1
    /\ IF sdNotify
       THEN /\ sdChan' = IF sdChan = "none" THEN sg ELSE sdChan
            /\ UNCHANGED << sdProc, sdPc >>
       ELSE /\ sdProc' = "killed"
            /\ sdPc' = "gone"
            /\ UNCHANGED sdChan
    /\ UNCHANGED << grvars, exvars, pvars, nvars, sdFn, sdCtx, sdNotify, sdGot, sdRan, sdStatus >>

\* where the call goes after the select: if shutdownFunc != nil
AfterSelect == IF sdFn # "nil" THEN "func" ELSE "exit"

\* case <-ctx.Done()
SdSelectCtx ==
    /\ sdProc = "running" /\ sdPc = "select" /\ sdCtx
    /\ sdGot' = "ctx"
    /\ sdPc' = AfterSelect
    /\ UNCHANGED << grvars, exvars, pvars, nvars, sdFn, sdCtx, sdNotify, sdChan, sdRan, sdSent, sdProc,
                    sdStatus >>

\* case <-sig: signal.Stop(sig)
SdSelectSig ==
    /\ sdProc = "running" /\ sdPc = "select" /\ sdChan # "none"
    /\ sdGot' = sdChan
    /\ sdChan' = "none"
    /\ sdNotify' = FALSE
    /\ sdPc' = AfterSelect
    /\ UNCHANGED << grvars, exvars, pvars, nvars, sdFn, sdCtx, sdRan, sdSent, sdProc, sdStatus >>

\* variant: shutdownFunc is called again after it returned
SdFunc_Again ==
    /\ sdProc = "running" /\ sdPc = "func"
    /\ sdRan' = IF sdRan < 2 THEN sdRan + 1 ELSE sdRan
    /\ sdCtx' = (sdCtx \/ sdFn = "cancel")
    /\ sdPc' = IF sdRan = 0 THEN "func" ELSE "exit"
    /\ UNCHANGED << grvars, exvars, pvars, nvars, sdFn, sdNotify, sdChan, sdGot, sdSent, sdProc,
                    sdStatus >>

\* shutdownFunc()
SdFunc ==
    /\ sdProc = "running" /\ sdPc = "func"
    /\ sdRan' = sdRan + 1
    /\ sdCtx' = (sdCtx \/ sdFn = "cancel")
    /\ sdPc' = "exit"
    /\ UNCHANGED << grvars, exvars, pvars, nvars, sdFn, sdNotify, sdChan, sdGot, sdSent, sdProc,
                    sdStatus >>

\* os.Exit(0)
SdExit ==
    /\ sdProc = "running" /\ sdPc = "exit"
    /\ sdProc' = "exited"
    /\ sdStatus' = 0
    /\ sdPc' = "exited"
    /\ UNCHANGED << grvars, exvars, pvars, nvars, sdFn, sdCtx, sdNotify, sdChan, sdGot, sdRan, sdSent >>

Standalone ==
    \/ SdNotify
    \/ SdCancel
    \/ \E sg \in Caught : SdSignal(sg)
    \/ SdSelectCtx
    \/ SdSelectSig
    \/ SdFunc
    \/ SdExit

\* a program that calls the standalone Shutdown
SpecShutdown == InitShutdown /\ [][Standalone]_vars

\* C30: the standalone Shutdown stays in its select until ctx is done or one
\* of the three signals was received; shutdownFunc runs only after that, at
\* most once and exactly once before os.Exit when it is not nil; the call
\* ends in os.Exit with status 0 and never returns.
C30_StandaloneShutdown ==
    /\ sdPc \in {"func", "exit", "exited"} => sdGot # "none"
    /\ sdGot = "ctx" => sdCtx
    /\ sdGot \in Caught => (sdSent > 0 /\ (sdNotify = FALSE))
    /\ sdRan <= 1
    /\ sdRan = 1 => (sdFn # "nil" /\ sdGot # "none")
    /\ sdPc = "exit" => sdRan = (IF sdFn = "nil" THEN 0 ELSE 1)
    /\ sdPc = "exited" =>
          /\ sdProc = "exited" /\ sdStatus = 0
          /\ sdRan = (IF sdFn = "nil" THEN 0 ELSE 1)
C30_Witness ==
    /\ sdProc = "exited" /\ sdStatus = 0 /\ sdRan = 1 /\ sdGot \in Caught

\* ------------------------------------------------- expire.go: Expire.Start
\* time.Hour, in ticks of the model's clock
Hour == 2
\* the TTL of the registered path, in ticks
TTL == 1
\* the values of ex.Freq the call is tried with: unset, two periods, and a
\* negative one
Freqs == {-1, 0, 1, 2}

\* Time.Truncate(d): t rounded down to a multiple of d; t itself when d <= 0
Truncate(t, d) == IF d <= 0 THEN t ELSE (t \div d) * d

\* a program whose worker is Expire.Start(ctx, init), spawned by an Init
\* that added one to the init WaitGroup for it
InitExpire ==
    /\ NewGraceful /\ NoShutdown /\ NoParse /\ NoFiles
    /\ exPc = "start" /\ exFreq \in Freqs /\ exNow \in 0..1
    /\ exT = 0 /\ exDue = -1 /\ exPeriod = 0
    /\ exChan = FALSE /\ exOnce = FALSE
    /\ exInit = 1 /\ exDones = 0 /\ exCtx = FALSE
    /\ exFiles \in SUBSET (0..1)
    /\ exProc = "running"

\* if ex.Freq == 0 { ex.Freq = time.Hour }
ExStart ==
    /\ exProc = "running" /\ exPc = "start"
    /\ exFreq' = IF exFreq = 0 THEN Hour ELSE exFreq
    /\ exPc' = "sweep0"
    /\ UNCHANGED << grvars, sdvars, pvars, nvars, exNow, exT, exDue, exPeriod, exChan, exOnce,
                    exInit, exDones, exCtx, exFiles, exProc >>

\* ex.Expire(): removes the regular files with ModTime().Add(TTL).Before(now)
ExExpire ==
    /\ exProc = "running" /\ exPc \in {"sweep0", "sweep"}
    /\ exFiles' = {m \in exFiles : ~(m + TTL < exNow)}
    /\ exPc' = IF exPc = "sweep0" THEN "done0" ELSE "select"
    /\ UNCHANGED << grvars, sdvars, pvars, nvars, exFreq, exNow, exT, exDue, exPeriod, exChan,
                    exOnce, exInit, exDones, exCtx, exProc >>

\* init.Done()
ExDone ==
    /\ exProc = "running" /\ exPc = "done0"
    /\ exInit' = exInit - 1
    /\ exDones' = exDones + 1
    /\ exPc' = "now"
    /\ UNCHANGED << grvars, sdvars, pvars, nvars, exFreq, exNow, exT, exDue, exPeriod, exChan,
                    exOnce, exCtx, exFiles, exProc >>

\* time.Now().Add(ex.Freq).Truncate(ex.Freq): the first reading of the clock
ExNow ==
    /\ exProc = "running" /\ exPc = "now"
    /\ exT' = Truncate(exNow + exFreq, exFreq)
    /\ exPc' = "until"
    /\ UNCHANGED << grvars, sdvars, pvars, nvars, exFreq, exNow, exDue, exPeriod, exChan, exOnce,
                    exInit, exDones, exCtx, exFiles, exProc >>

\* time.NewTicker(time.Until(t)): the second reading of the clock; NewTicker
\* panics when its argument is not positive
ExTicker ==
    /\ exProc = "running" /\ exPc = "until"
    /\ LET d == exT - exNow
       IN  IF d <= 0
           THEN /\ exProc' = "panic"
                /\ exPc' = "gone"
                /\ UNCHANGED << exDue, exPeriod >>
           ELSE /\ exDue' = exNow + d
                /\ exPeriod' = d
                /\ exPc' = "select"
                /\ UNCHANGED exProc
    /\ UNCHANGED << grvars, sdvars, pvars, nvars, exFreq, exNow, exT, exChan, exOnce, exInit,
                    exDones, exCtx, exFiles >>

\* case <-ctx.Done(): ticker.Stop(); return
ExSelectCtx ==
    /\ exProc = "running" /\ exPc = "select" /\ exCtx
    /\ exDue' = -1
    /\ exPc' = "returned"
    /\ UNCHANGED << grvars, sdvars, pvars, nvars, exFreq, exNow, exT, exPeriod, exChan, exOnce,
                    exInit, exDones, exCtx, exFiles, exProc >>

\* case <-ticker.C: the first tick replaces the ticker by one of period
\* ex.Freq; then ex.Expire()
ExSelectTick ==
    /\ exProc = "running" /\ exPc = "select" /\ exChan
    /\ exChan' = FALSE
    /\ exOnce' = TRUE
    /\ exPeriod' = IF exOnce THEN exPeriod ELSE exFreq
    /\ exDue' = IF exOnce THEN exDue ELSE exNow + exFreq
    /\ exPc' = "sweep"
    /\ UNCHANGED << grvars, sdvars, pvars, nvars, exFreq, exNow, exT, exInit, exDones, exCtx,
                    exFiles, exProc >>

\* the wall clock advances; a ticker that is due puts a tick in its channel
ExClock ==
    /\ exProc = "running" /\ exPc # "none" /\ exNow < MaxClock
    /\ exNow' = exNow + 1
    /\ IF exDue # -1 /\ exNow + 1 >= exDue
       THEN /\ exChan' = TRUE
            /\ exDue' = exDue + exPeriod
       ELSE UNCHANGED << exChan, exDue >>
    /\ UNCHANGED << grvars, sdvars, pvars, nvars, exPc, exFreq, exT, exPeriod, exOnce, exInit,
                    exDones, exCtx, exFiles, exProc >>

\* the token is fired
ExCancel ==
    /\ exProc = "running" /\ exPc # "none" /\ ~exCtx
    /\ exCtx' = TRUE
    /\ UNCHANGED << grvars, sdvars, pvars, nvars, exPc, exFreq, exNow, exT, exDue, exPeriod,
                    exChan, exOnce, exInit, exDones, exFiles, exProc >>

Expiring ==
    \/ ExStart
    \/ ExExpire
    \/ ExDone
    \/ ExNow
    \/ ExTicker
    \/ ExSelectCtx
    \/ ExSelectTick
    \/ ExClock
    \/ ExCancel

\* a program whose worker is Expire.Start
SpecExpire == InitExpire /\ [][Expiring]_vars

\* C29: Expire.Start calls init.Done() exactly once, after its first sweep
\* and before it blocks; from then on, while ctx is not done, the call is in
\* progress (it has neither returned nor ended otherwise); it returns only
\* when ctx is done, with no further init.Done().
C29_ReportingBlocker ==
    /\ exDones <= 1
    /\ exDones = 1 => exInit = 0
    /\ (exDones = 1 /\ ~exCtx) => exPc \in {"now", "until", "select", "sweep"}
    /\ exPc = "returned" => (exCtx /\ exDones = 1)

\* ------------------------------------------ parser.go / env.go: Parser.Do
\* texts, as sequences of pieces: "", "x" and "on"
Texts == {<< >>, << "x" >>, << "on" >>}
\* an optional text: << >> when absent, << s >> when present
Opt(S) == {<< >>} \cup {<< x >> : x \in S}
\* the forms of a command-line argument: -a, -a=s (or -a:s), and a plain word
Tokens ==
    [t : {"switch"}, v : {<< >>}] \cup [t : {"assign"}, v : Texts]
      \cup [t : {"word"}, v : Texts \ {<< >>}]
ArgLists == UNION {[1..n -> Tokens] : n \in 0..MaxArgs}

\* the loop over os.Args that fills p.m: -a=s appends s to the entry, -a
\* followed by a word sets the entry to the word, a lone -a sets nothing
RECURSIVE ArgsMap(_, _, _)
ArgsMap(args, i, m) ==
    IF i > Len(args) THEN m
    ELSE IF args[i].t = "assign"
         THEN ArgsMap(args, i + 1,
                      << (IF m = << >> THEN << >> ELSE m[1]) \o args[i].v >>)
    ELSE IF args[i].t = "switch" /\ i + 1 <= Len(args)
            /\ args[i + 1].t = "word"
         THEN ArgsMap(args, i + 2, << args[i + 1].v >>)
    ELSE ArgsMap(args, i + 1, m)

\* setField: what the field holds after it was set from the text s
Conv(kind, s) ==
    IF kind = "string" THEN s
    ELSE IF s = << "on" >> THEN << "true" >> ELSE << "false" >>
\* setField: its second result
SetOk(kind, s) == IF kind = "string" THEN Len(s) > 0 ELSE TRUE
\* value, status = p.setField(v.Field(j), s) when present, and the next step
SetField(o, next) ==
    /\ IF o # << >>
       THEN /\ pField' = Conv(pKind, o[1])
            /\ pStatus' = SetOk(pKind, o[1])
            /\ pValue' = IF SetOk(pKind, o[1]) THEN o[1] ELSE << >>
       ELSE UNCHANGED << pField, pStatus, pValue >>
    /\ pPc' = next

\* the call Do(&cfg) on a struct with one field, nothing processed yet
InitParse ==
    /\ NewGraceful /\ NoShutdown /\ NoExpire /\ NoFiles
    /\ pPc = "args" /\ pArgs \in ArgLists
    /\ pTag \in Opt(Texts) /\ pEnv \in Opt(Texts)
    /\ pKind \in {"string", "bool"}
    /\ pOrder \in BOOLEAN /\ pRequire \in BOOLEAN /\ pSetENV \in BOOLEAN
    /\ pM = << >>
    /\ pField = (IF pKind = "string" THEN << >> ELSE << "false" >>)
    /\ pValue = << >> /\ pStatus = FALSE /\ pMirror = << >>
    /\ pProc = "running"

\* processes os.Args and builds the map
PArgs ==
    /\ pProc = "running" /\ pPc = "args"
    /\ pM' = ArgsMap(pArgs, 1, << >>)
    /\ pPc' = "default"
    /\ UNCHANGED << grvars, sdvars, exvars, nvars, pArgs, pTag, pEnv, pKind, pOrder,
                    pRequire, pSetENV, pField, pValue, pStatus, pMirror, pProc >>

\* apply tag:default values; when defined
PDefault ==
    /\ pProc = "running" /\ pPc = "default"
    /\ SetField(pTag, "switch")
    /\ UNCHANGED << grvars, sdvars, exvars, nvars, pArgs, pTag, pEnv, pKind, pOrder,
                    pRequire, pSetENV, pM, pMirror, pProc >>

\* overload with conf/args values; when present
PSwitch ==
    /\ pProc = "running" /\ pPc = "switch"
    /\ SetField(pM, "environ")
    /\ UNCHANGED << grvars, sdvars, exvars, nvars, pArgs, pTag, pEnv, pKind, pOrder,
                    pRequire, pSetENV, pM, pMirror, pProc >>

\* overload with os.Environment table values; when present
PEnviron ==
    /\ pProc = "running" /\ pPc = "environ"
    /\ SetField(pEnv, "order")
    /\ UNCHANGED << grvars, sdvars, exvars, nvars, pArgs, pTag, pEnv, pKind, pOrder,
                    pRequire, pSetENV, pM, pMirror, pProc >>

\* the field takes os.Args[1]: env.Order && len(os.Args) > order &&
\* !strings.HasPrefix(os.Args[order], "-")
Ordered == pOrder /\ Len(pArgs) >= 1 /\ pArgs[1].t = "word"

\* check for ordering
POrdered ==
    /\ pProc = "running" /\ pPc = "order"
    /\ SetField(IF Ordered THEN << pArgs[1].v >> ELSE << >>, "require")
    /\ UNCHANGED << grvars, sdvars, exvars, nvars, pArgs, pTag, pEnv, pKind, pOrder,
                    pRequire, pSetENV, pM, pMirror, pProc >>

\* check for requirement (os.Exit(0)), then mirror the value to the
\* environment
PRequire ==
    /\ pProc = "running" /\ pPc = "require"
    /\ IF pRequire /\ ~pStatus
       THEN /\ pProc' = "exited"
            /\ pPc' = "gone"
            /\ UNCHANGED pMirror
       ELSE /\ pMirror' = IF pStatus /\ pSetENV THEN << pValue >> ELSE pMirror
            /\ pPc' = "done"
            /\ UNCHANGED pProc
    /\ UNCHANGED << grvars, sdvars, exvars, nvars, pArgs, pTag, pEnv, pKind, pOrder,
                    pRequire, pSetENV, pM, pField, pValue, pStatus >>

Parsing ==
    \/ PArgs
    \/ PDefault
    \/ PSwitch
    \/ PEnviron
    \/ POrdered
    \/ PRequire

\* a program that parses its configuration
SpecParse == InitParse /\ [][Parsing]_vars

\* the text of the source of highest precedence that is present, in the
\* order default tag, environment, command line (a switch or, for an ordered
\* field, the first word)
Highest ==
    IF Ordered THEN << pArgs[1].v >>
    ELSE IF ArgsMap(pArgs, 1, << >>) # << >> THEN ArgsMap(pArgs, 1, << >>)
    ELSE IF pEnv # << >> THEN pEnv
    ELSE pTag

\* C23: when Do has processed the field, the field holds the value of the
\* source of highest precedence that is present, in the order default tag <
\* environment < command line.
C23_Precedence ==
    (pPc = "done" /\ Highest # << >>) => pField = Conv(pKind, Highest[1])

\* ------------------------------------------------- Map.Add and Map.Next
\* the values of age Next is tried with
Ages == {0, 1, 2}
\* the keys present in the Map
Has == {k \in Keys : mMap[k] # -1}
\* (*m)[k].Before(time.Now().Add(-age)), for a key of time t at clock now
Old(t, now, age) == t < now - age

\* m := NewMap()
InitMap ==
    /\ NewGraceful /\ NoShutdown /\ NoExpire /\ NoParse /\ NoLock /\ NoFlock
    /\ mPc = "build" /\ mMap = [k \in Keys |-> -1] /\ mNow = 0 /\ mAge = 0
    /\ mOrig = {} /\ mLog = << >> /\ mAdds = 0 /\ mDrop = {}

\* Map.Add(k): the empty key (0) is ignored, any other key gets the time now
MAdd(k) ==
    /\ mPc = "build" /\ k \in Keys \cup {0} /\ mAdds < MaxAdds
    /\ mAdds' = mAdds + 1
    /\ mMap' = IF k = 0 THEN mMap ELSE [mMap EXCEPT ![k] = mNow]
    /\ UNCHANGED << grvars, ovars, lkvars, flvars, mPc, mNow, mAge, mOrig, mLog, mDrop >>

\* time passes
MClock ==
    /\ mPc \in {"build", "idle", "loop"} /\ mNow < MaxStamp
    /\ mNow' = mNow + 1
    /\ UNCHANGED << grvars, ovars, lkvars, flvars, mAdds, mPc, mMap, mAge, mOrig, mLog, mDrop >>

\* Map.Next(age): nil for an empty Map, else the iterator
MNext(age) ==
    /\ mPc = "build"
    /\ mAge' = age
    /\ mOrig' = Has
    /\ mPc' = IF Has = {} THEN "nil" ELSE "idle"
    /\ UNCHANGED << grvars, ovars, lkvars, flvars, mAdds, mMap, mNow, mLog, mDrop >>

\* a call of the iterator
MCall ==
    /\ mPc = "idle"
    /\ mPc' = "loop"
    /\ UNCHANGED << grvars, ovars, lkvars, flvars, mAdds, mMap, mNow, mAge, mOrig, mLog, mDrop >>

\* variant: the iterator returns the key it finds, whatever its time
MRange_NoAge(k) ==
    /\ mPc = "loop" /\ k \in Has
    /\ mMap' = [mMap EXCEPT ![k] = -1]
    /\ mLog' = Append(mLog, << k, mMap[k], mNow >>)
    /\ mPc' = "idle"
    /\ UNCHANGED << grvars, ovars, lkvars, flvars, mAdds, mNow, mAge, mOrig, mDrop >>

\* one round of for k := range *m, with the key the runtime hands out: an
\* expired key is deleted and the loop goes on, any other key is deleted
\* and returned with more = true
MRange(k) ==
    /\ mPc = "loop" /\ k \in Has
    /\ mMap' = [mMap EXCEPT ![k] = -1]
    /\ IF mAge > 0 /\ Old(mMap[k], mNow, mAge)
       THEN /\ mDrop' = mDrop \cup {<< k, mMap[k], mNow >>}
            /\ UNCHANGED << mLog, mPc >>
       ELSE /\ mLog' = Append(mLog, << k, mMap[k], mNow >>)
            /\ mPc' = "idle"
            /\ UNCHANGED mDrop
    /\ UNCHANGED << grvars, ovars, lkvars, flvars, mAdds, mNow, mAge, mOrig >>

\* the range is over: return "", false
MEnd ==
    /\ mPc = "loop" /\ Has = {}
    /\ mPc' = "end"
    /\ UNCHANGED << grvars, ovars, lkvars, flvars, mAdds, mMap, mNow, mAge, mOrig, mLog, mDrop >>

Mapping ==
    \/ \E k \in Keys \cup {0} : MAdd(k)
    \/ MClock
    \/ \E age \in Ages : MNext(age)
    \/ MCall
    \/ \E k \in Keys : MRange(k)
    \/ MEnd

\* a program that fills a Map and drains it
SpecMap == InitMap /\ [][Mapping]_vars

\* the keys yielded so far, and the keys deleted as expired so far
Yielded == {mLog[i][1] : i \in 1..Len(mLog)}
Dropped == {d[1] : d \in mDrop}

Ttls == {0, 1}
\* every element of the path above node d is a directory
Reach(d) == \A i \in 0..(d - 1) : lkFs[i] = "dir"
\* os.Stat of node d: "ok", or the error of the first element that is not
\* a directory
Stat(d) ==
    IF Reach(d)
    THEN (IF lkFs[d] = "none" THEN "ENOENT" ELSE "ok")
    ELSE LET b == CHOOSE i \in 0..(d - 1) : lkFs[i] # "dir" /\ Reach(i)
         IN  IF lkFs[b] = "file" THEN "ENOTDIR" ELSE "ENOENT"
\* os.Remove of node d succeeds: a file, or a directory with nothing in it
CanRemove(d) ==
    /\ Reach(d)
    /\ \/ lkFs[d] = "file"
       \/ lkFs[d] = "dir" /\ lkFs[d + 1] = "none"
\* os.Create of node d succeeds: its directory exists and it is no directory
CanCreate(d) == Reach(d) /\ lkFs[d] \in {"none", "file"}
\* the files after node d was removed, and their times
Removed(d) == [lkFs EXCEPT ![d] = "none"]
TouchUp(d) ==
    [i \in Nodes |-> IF d > 0 /\ i = d - 1 THEN lkNow ELSE lkMt[i]]
\* the call and its result are recorded
Called(m, r) == lkLog' = Append(lkLog, << m, r >>)

\* var lock env.Lock, empty or holding a directory; the directory of the
\* empty value is /tmp, which exists; a {program}.lock file may be there
InitLock ==
    /\ NewGraceful /\ NoShutdown /\ NoExpire /\ NoParse /\ NoMap /\ NoFlock
    /\ lkPc = "on" /\ lkEmpty \in BOOLEAN /\ lkDepth = 0
    /\ \E dir \in {"dir", "none"}, old \in {"none", "file"} :
          /\ lkEmpty => dir = "dir"
          /\ dir = "none" => old = "none"
          /\ lkFs = [d \in Nodes |->
                       IF d = 0 THEN dir ELSE IF d = 1 THEN old ELSE "none"]
    /\ lkMt = [d \in Nodes |-> 0]
    /\ lkNow = 0 /\ lkLog = << >>

\* time passes
LkClock ==
    /\ lkPc = "on" /\ lkNow < MaxStamp
    /\ lkNow' = lkNow + 1
    /\ UNCHANGED << grvars, ovars, mvars, flvars, lkPc, lkEmpty, lkDepth, lkFs, lkMt,
                    lkLog >>

\* Lock.Exist(ttl): the Lock value becomes its path joined with
\* {program}.lock; a missing directory of that path is made (false); a
\* {program}.lock older than ttl is removed (!Unlock()); else the result is
\* !errors.Is(err, fs.ErrNotExist)
Exist(ttl) ==
    /\ lkPc = "on" /\ Len(lkLog) < MaxOps /\ lkDepth < MaxDepth
    /\ LET T == IF ttl = 0 THEN Hour ELSE ttl
           p == lkDepth + 1
       IN  /\ lkDepth' = p
           /\ lkEmpty' = FALSE
           /\ IF Stat(lkDepth) = "ENOENT"
              THEN /\ lkFs' = [d \in Nodes |->
                                 IF d <= lkDepth THEN "dir" ELSE lkFs[d]]
                   /\ lkMt' = [d \in Nodes |->
                                 IF d <= lkDepth /\ lkFs[d] = "none"
                                 THEN lkNow ELSE lkMt[d]]
                   /\ Called("Exist", FALSE)
              ELSE IF Stat(p) = "ok" /\ lkMt[p] < lkNow - T
              THEN IF CanRemove(p)
                   THEN /\ lkFs' = Removed(p)
                        /\ lkMt' = TouchUp(p)
                        /\ Called("Exist", FALSE)
                   ELSE /\ UNCHANGED << lkFs, lkMt >>
                        /\ Called("Exist", TRUE)
              ELSE /\ UNCHANGED << lkFs, lkMt >>
                   /\ Called("Exist", Stat(p) # "ENOENT")
    /\ UNCHANGED << grvars, ovars, mvars, flvars, lkPc, lkNow >>

\* Lock.Lock(): os.Create(string(lock)) and the pid written to it
Lock ==
    /\ lkPc = "on" /\ Len(lkLog) < MaxOps
    /\ IF ~lkEmpty /\ CanCreate(lkDepth)
       THEN /\ lkFs' = [lkFs EXCEPT ![lkDepth] = "file"]
            /\ lkMt' = [TouchUp(IF lkFs[lkDepth] = "none" THEN lkDepth ELSE 0)
                          EXCEPT ![lkDepth] = lkNow]
            /\ Called("Lock", TRUE)
       ELSE /\ UNCHANGED << lkFs, lkMt >>
            /\ Called("Lock", FALSE)
    /\ UNCHANGED << grvars, ovars, mvars, flvars, lkPc, lkEmpty, lkDepth, lkNow >>

\* Lock.Unlock(): os.Remove(string(lock)) == nil
Unlock ==
    /\ lkPc = "on" /\ Len(lkLog) < MaxOps
    /\ IF ~lkEmpty /\ CanRemove(lkDepth)
       THEN /\ lkFs' = Removed(lkDepth)
            /\ lkMt' = TouchUp(lkDepth)
            /\ Called("Unlock", TRUE)
       ELSE /\ UNCHANGED << lkFs, lkMt >>
            /\ Called("Unlock", FALSE)
    /\ UNCHANGED << grvars, ovars, mvars, flvars, lkPc, lkEmpty, lkDepth, lkNow >>

Locking ==
    \/ LkClock
    \/ \E ttl \in Ttls : Exist(ttl)
    \/ Lock
    \/ Unlock

\* a program that uses one Lock value
SpecLock == InitLock /\ [][Locking]_vars

\* the documented protocol so far: Exist() = false, Lock() = true,
\* Exist() = true
Protocol == << << "Exist", FALSE >>, << "Lock", TRUE >>, << "Exist", TRUE >> >>

\* C32: every call on one Lock value works on {directory}/{program}.lock,
\* however often Exist was called, and after Exist() = false, Lock() = true,
\* Exist() = true a call of Unlock() returns true and a call of Exist()
\* after that returns false.
C32_ProtocolStable ==
    /\ lkDepth <= 1
    /\ (Len(lkLog) >= 4 /\ SubSeq(lkLog, 1, 3) = Protocol
          /\ lkLog[4][1] = "Unlock") => lkLog[4][2] = TRUE
    /\ (Len(lkLog) >= 5 /\ SubSeq(lkLog, 1, 3) = Protocol
          /\ lkLog[4] = << "Unlock", TRUE >> /\ lkLog[5][1] = "Exist")
          => lkLog[5][2] = FALSE

\* ------------------------------------ the older Lock struct: Lock, Unlock
\* the process is inside Lock()
InLock(q) == flPc[q] \in {"stat", "check", "create"}

\* two processes, var lock = env.Lock{Path: ..., TTL: ...}; the directory
\* may be missing, and a lock file of an earlier run may be there
InitFlock ==
    /\ NewGraceful /\ NoShutdown /\ NoExpire /\ NoParse /\ NoMap /\ NoLock
    /\ flPc = [q \in Procs |-> "idle"] /\ flInfo = [q \in Procs |-> -1]
    /\ flConc = [q \in Procs |-> FALSE]
    /\ flTTL \in {0, 1} /\ flDir \in BOOLEAN
    /\ flFile \in {-1, 0} /\ (flFile = 0 => flDir)
    /\ flPid = 0 /\ flNow \in {0, MaxStamp - 1} /\ flTries = 0

\* time passes
FlClock ==
    /\ \E q \in Procs : flPc[q] # "none"
    /\ flNow < MaxStamp
    /\ flNow' = flNow + 1
    /\ UNCHANGED << grvars, ovars, mvars, lkvars, flPc, flInfo, flConc, flTTL,
                    flDir, flFile, flPid, flTries >>

\* Lock(): the default assurances; os.MkdirAll makes the directory above
\* lk.Path, not lk.Path
FlCall(q) ==
    /\ flPc[q] = "idle" /\ flTries < MaxTries
    /\ flTries' = flTries + 1
    /\ flPc' = [flPc EXCEPT ![q] = "stat"]
    /\ flConc' = [r \in Procs |->
                    IF \E o \in Procs \ {q} : InLock(o)
                    THEN (r = q \/ InLock(r) \/ flConc[r]) ELSE flConc[r]]
    /\ UNCHANGED << grvars, ovars, mvars, lkvars, flInfo, flTTL, flDir, flFile,
                    flPid, flNow >>

\* info, err := os.Stat(target)
FlStat(q) ==
    /\ flPc[q] = "stat"
    /\ flInfo' = [flInfo EXCEPT ![q] = IF flDir THEN flFile ELSE -1]
    /\ flPc' = [flPc EXCEPT ![q] = "check"]
    /\ UNCHANGED << grvars, ovars, mvars, lkvars, flConc, flTTL, flDir, flFile,
                    flPid, flNow, flTries >>

\* if info != nil && !info.ModTime().Before(time.Now().Add(-lk.TTL))
\* { return true }
FlCheck(q) ==
    /\ flPc[q] = "check"
    /\ LET T == IF flTTL = 0 THEN Hour ELSE flTTL
       IN  flPc' = [flPc EXCEPT ![q] =
                      IF flInfo[q] # -1 /\ ~(flInfo[q] < flNow - T)
                      THEN "refused" ELSE "create"]
    /\ UNCHANGED << grvars, ovars, mvars, lkvars, flInfo, flConc, flTTL, flDir,
                    flFile, flPid, flNow, flTries >>

\* f, err := os.Create(target): creates or truncates; the pid is written;
\* return err != nil
FlCreate(q) ==
    /\ flPc[q] = "create"
    /\ IF flDir
       THEN /\ flFile' = flNow
            /\ flPid' = q
            /\ flPc' = [flPc EXCEPT ![q] = "held"]
       ELSE /\ UNCHANGED << flFile, flPid >>
            /\ flPc' = [flPc EXCEPT ![q] = "refused"]
    /\ UNCHANGED << grvars, ovars, mvars, lkvars, flInfo, flConc, flTTL, flDir,
                    flNow, flTries >>

\* defer lk.Unlock() of a process that got false: os.Remove(target)
FlUnlock(q) ==
    /\ flPc[q] = "held"
    /\ flFile' = -1
    /\ flPid' = IF flFile = -1 THEN flPid ELSE 0
    /\ flPc' = [flPc EXCEPT ![q] = "idle"]
    /\ flConc' = [flConc EXCEPT ![q] = FALSE]
    /\ flInfo' = [flInfo EXCEPT ![q] = -1]
    /\ UNCHANGED << grvars, ovars, mvars, lkvars, flTTL, flDir, flNow, flTries >>

\* a process that got true returns ("existing lock")
FlGiveUp(q) ==
    /\ flPc[q] = "refused"
    /\ flPc' = [flPc EXCEPT ![q] = "idle"]
    /\ flConc' = [flConc EXCEPT ![q] = FALSE]
    /\ flInfo' = [flInfo EXCEPT ![q] = -1]
    /\ UNCHANGED << grvars, ovars, mvars, lkvars, flTTL, flDir, flFile, flPid,
                    flNow, flTries >>

Flocking ==
    \/ FlClock
    \/ \E q \in Procs : FlCall(q)
    \/ \E q \in Procs : FlStat(q)
    \/ \E q \in Procs : FlCheck(q)
    \/ \E q \in Procs : FlCreate(q)
    \/ \E q \in Procs : FlUnlock(q)
    \/ \E q \in Procs : FlGiveUp(q)

\* two processes that share a lock file
SpecFlock == InitFlock /\ [][Flocking]_vars

\* C33: of two processes whose Lock() calls overlapped, at most one got
\* false (lock acquired).
C33_MutualExclusion ==
    ~(\A q \in Procs : flPc[q] = "held" /\ flConc[q])

====
